---- MODULE Spec2Model ----
(***************************************************************************)
(* A model of the Temporal Terraform provider (internal/provider): the     *)
(* duration and calendar-range formatting helpers, the schedule            *)
(* conversions, the namespace resource and the search-attribute resource   *)
(* with its creation poll.                                                 *)
(*                                                                         *)
(* Go strings are sequences of one-character strings, so that formatting   *)
(* and parsing are computed character by character.  A time.Duration (an   *)
(* int64 count of nanoseconds) is kept as whole seconds plus a nanosecond  *)
(* remainder, which is the split durationpb.New performs.                  *)
(***************************************************************************)
EXTENDS Integers, Sequences, FiniteSets, TLC

VARIABLES
    fmtOp,      \* the helper applied last ("idle" before the first)
    durArg,     \* formatDurationCanonical: the *durationpb.Duration given
    durRet,     \* formatDurationCanonical: the string returned
    durParsed,  \* time.ParseDuration applied to durRet
    rngArg,     \* formatRanges: the []*schedulev1.Range given
    rngRet      \* formatRanges: the string returned

\* The namespace resource.
VARIABLES
    nsState,    \* the Terraform state of the managed namespace
    nsBackend,  \* the namespace as the Temporal server holds it
    nsOp,       \* the handler run last ("idle" before the first)
    nsPrior,    \* its request: the prior state
    nsPlan,     \* its request: the plan
    nsDiags,    \* the diagnostics of its response
    nsCalls,    \* the remote calls it made, in order
    nsErr       \* the error of the last remote call of that handler

\* The search attribute resource: one attribute name of one namespace on the
\* server, and the resource instances (one handler at a time each).
VARIABLES
    saBackend,  \* the attribute on the server: "absent", "pending" (added, not
                \* yet in list responses) or "visible"
    saPc,       \* per instance: "ready", or where its Create is
    saOp,       \* per instance: the handler run last (or running)
    saState,    \* per instance: TRUE when the resource is in Terraform state
    saDiags,    \* per instance: the diagnostics of the handler
    saCalls,    \* per instance: the remote calls of the handler, in order
    saCtxDone,  \* per instance: the handler's context is done
    saTick,     \* per instance: a tick waits in ticker.C
    saTicks,    \* per instance: ticks delivered to ticker.C by the poll so far
    saPolls,    \* per instance: the list calls of the poll, in order
    saAwaitRet, \* per instance: what AwaitAddSearchAttributes returned
    saCheck,      \* per instance: what the existence check of its Create was answered
    saType        \* the type the attribute is registered with ("none" when absent)

\* ImportState of the search attribute and schedule resources.
VARIABLES
    impOp,      \* the import handler run ("idle" before it)
    impId,      \* req.ID
    impCalls,   \* the remote calls it made, with the namespace and name sent
    impResp,    \* the answer to its call
    impDiags,   \* the diagnostics of its response
    impState    \* the state it wrote

\* Read of the search attribute data source.
VARIABLES
    dsOp,       \* "idle" before the read, "Read" after it
    dsConfig,   \* the data block: name and namespace
    dsCalls,    \* the remote calls made, with the namespace sent
    dsResp,     \* the answer to the list call
    dsDiags,    \* the diagnostics of the response
    dsState     \* the state written

\* The schedule resource: one handler run against a prior state, and
\* convertToSchedulePolicy applied on its own.
VARIABLES
    schedOp,      \* the handler (or helper) run ("idle" before it)
    schedPlan,    \* its request: the plan
    schedState,   \* the Terraform state of the schedule
    schedDiags,   \* the diagnostics of its response
    schedCalls,   \* the remote calls it made, in order
    schedRequest, \* the schedule sent with the call
    polArg,       \* convertToSchedulePolicy: the *SchedulePolicyModel given
    polRet,       \* convertToSchedulePolicy: the policies and diagnostics returned
    memoArg,      \* convertMemo: the *commonv1.Memo given
    memoRet       \* convertMemo: the map and diagnostics returned

\* The provider: one Configure run.
VARIABLES
    provOp,       \* "idle" before Configure, "Configure" after it
    provConfig,   \* the provider block of the configuration
    provEnv,      \* the environment of the process
    provDiags,    \* the diagnostics of the response
    provClient    \* resp.ResourceData: the client made, or none

\* The retention of the managed namespace.
VARIABLES
    retOp,      \* the handler run last ("idle" before the first)
    retPlan,    \* the retention, in days, of the last plan
    retTtl,     \* the retention the server holds for the namespace
    retWriter,  \* who set it last: "Create", "Update" or "elsewhere"
    retState    \* the retention, in days, of the Terraform state

\* Handlers of the schedule resource that run at the same time, each on a
\* schedule of its own.
VARIABLES
    rClient,      \* r.client, the one field of the resource object
    pkgOverlap,   \* the package-level map ScheduleOverlapPolicy
    cPc,          \* per handler: "idle", "running" (before its remote call), "done"
    cOp,          \* per handler: Create, Update or Delete
    cPlan,        \* per handler: the plan decoded
    cClient,      \* per handler: the client made from r.client at its start
    cAnswer,      \* per handler: the error of its remote call
    cOut,         \* per handler: diagnostics, calls, request and state
    cServer,      \* per schedule: whether the server has it
    cState        \* per schedule: the Terraform state before the handler

\* convertToScheduleAction on its own: the workflow model it is given and
\* what it returns.
VARIABLES
    actOp,
    actArg,
    actRet

\* CreateGRPCClient on its own: its arguments and what it returns.
VARIABLES
    gcOp,
    gcArgs,
    gcRet

fmtVars == <<fmtOp, durArg, durRet, durParsed, rngArg, rngRet>>

nsVars == <<nsState, nsBackend, nsOp, nsPrior, nsPlan, nsDiags, nsCalls, nsErr>>

saVars == <<saBackend, saPc, saOp, saState, saDiags, saCalls, saCtxDone, saTick,
            saTicks, saPolls, saAwaitRet, saCheck, saType>>

impVars == <<impOp, impId, impCalls, impResp, impDiags, impState>>

dsVars == <<dsOp, dsConfig, dsCalls, dsResp, dsDiags, dsState>>

schedVars == <<schedOp, schedPlan, schedState, schedDiags, schedCalls, schedRequest,
               polArg, polRet, memoArg, memoRet>>

retVars == <<retOp, retPlan, retTtl, retWriter, retState>>

concVars == <<rClient, pkgOverlap, cPc, cOp, cPlan, cClient, cAnswer, cOut, cServer, cState>>

actVars == <<actOp, actArg, actRet>>

gcVars == <<gcOp, gcArgs, gcRet>>

provVars == <<provOp, provConfig, provEnv, provDiags, provClient>>

\* What a helper leaves alone, and what a handler of each resource does.
exceptFmt ==
    <<nsVars, saVars, impVars, schedVars, provVars, dsVars, retVars, concVars, actVars, gcVars>>

exceptNs ==
    <<fmtVars, saVars, impVars, schedVars, provVars, dsVars, retVars, concVars, actVars, gcVars>>

exceptSa ==
    <<fmtVars, nsVars, impVars, schedVars, provVars, dsVars, retVars, concVars, actVars, gcVars>>

exceptImp ==
    <<fmtVars, nsVars, saVars, schedVars, provVars, dsVars, retVars, concVars, actVars, gcVars>>

exceptSched ==
    <<fmtVars, nsVars, saVars, impVars, provVars, dsVars, retVars, concVars, actVars, gcVars>>

exceptProv ==
    <<fmtVars, nsVars, saVars, impVars, schedVars, dsVars, retVars, concVars, actVars, gcVars>>

exceptDs ==
    <<fmtVars, nsVars, saVars, impVars, schedVars, provVars, retVars, concVars, actVars, gcVars>>

exceptRet ==
    <<fmtVars, nsVars, saVars, impVars, schedVars, provVars, dsVars, concVars, actVars, gcVars>>

exceptConc ==
    <<fmtVars, nsVars, saVars, impVars, schedVars, provVars, dsVars, retVars, actVars, gcVars>>

exceptAct ==
    <<fmtVars, nsVars, saVars, impVars, schedVars, provVars, dsVars, retVars, concVars, gcVars>>

exceptGc ==
    <<fmtVars, nsVars, saVars, impVars, schedVars, provVars, dsVars, retVars, concVars, actVars>>

(***************************************************************************)
(* Bounds of the model.                                                    *)
(***************************************************************************)
MaxDays == 2
MaxHours == 25
MaxMinutes == 61
MaxSeconds == 61
MaxRangeVal == 11
MaxStep == 2
MaxRanges == 2

MaxClusters == 2

MaxTicks == 2

MaxIdLen == 4

MaxChanged == 2

MaxMemoKeys == 2

MaxSettings == 2

MaxRetention == 2

(***************************************************************************)
(* Strings and integers.                                                   *)
(***************************************************************************)
DigitChars == <<"0", "1", "2", "3", "4", "5", "6", "7", "8", "9">>

IsDigit(c) == \E i \in 1..10 : DigitChars[i] = c

DigitVal(c) == (CHOOSE i \in 1..10 : DigitChars[i] = c) - 1

\* Go's integer division and remainder truncate toward zero (b > 0 here).
GoQuot(a, b) == IF a >= 0 THEN a \div b ELSE -((-a) \div b)

GoRem(a, b) == IF a >= 0 THEN a % b ELSE -((-a) % b)

RECURSIVE NatStr(_)
NatStr(n) ==
    IF n < 10 THEN <<DigitChars[n + 1]>>
    ELSE NatStr(n \div 10) \o <<DigitChars[(n % 10) + 1]>>

\* strconv.Itoa and fmt's %d verb.
Itoa(n) == IF n < 0 THEN <<"-">> \o NatStr(-n) ELSE NatStr(n)

Str24h == <<"2", "4", "h">>
Str1h == <<"1", "h">>
Str30m == <<"3", "0", "m">>
Str1m == <<"1", "m">>

NilDuration == [nil |-> TRUE, seconds |-> 0, nanos |-> 0]

Duration(s, n) == [nil |-> FALSE, seconds |-> s, nanos |-> n]

(***************************************************************************)
(* formatDurationCanonical reads only the whole seconds of the duration.   *)
(***************************************************************************)
FormatDurationDayFirst(d) ==
    IF d.nil THEN <<>>
    ELSE LET totalSeconds == d.seconds IN
         IF GoRem(totalSeconds, 24 * 3600) = 0
           THEN Itoa(GoQuot(totalSeconds, 24 * 3600)) \o <<"d">>
         ELSE IF GoRem(totalSeconds, 3600) = 0
           THEN Itoa(GoQuot(totalSeconds, 3600)) \o <<"h">>
         ELSE IF GoRem(totalSeconds, 60) = 0
           THEN Itoa(GoQuot(totalSeconds, 60)) \o <<"m">>
         ELSE Itoa(totalSeconds) \o <<"s">>

formatDurationCanonical(d) ==
    IF d.nil THEN <<>>
    ELSE LET totalSeconds == d.seconds IN
         CASE totalSeconds = 86400 -> Str24h
           [] totalSeconds = 3600 -> Str1h
           [] totalSeconds = 1800 -> Str30m
           [] totalSeconds = 60 -> Str1m
           [] OTHER ->
                IF GoRem(totalSeconds, 24 * 3600) = 0
                  THEN Itoa(GoQuot(totalSeconds, 24 * 3600)) \o <<"d">>
                ELSE IF GoRem(totalSeconds, 3600) = 0
                  THEN Itoa(GoQuot(totalSeconds, 3600)) \o <<"h">>
                ELSE IF GoRem(totalSeconds, 60) = 0
                  THEN Itoa(GoQuot(totalSeconds, 60)) \o <<"m">>
                ELSE Itoa(totalSeconds) \o <<"s">>

(***************************************************************************)
(* time.ParseDuration, the parser of the write path: an optional sign,     *)
(* then one or more terms, each a decimal number (digits, optionally a     *)
(* period and more digits) followed by a unit, with the units ns, us, ms,  *)
(* s, m and h.  The result is                                              *)
(* [ok, seconds, nanos]; a string that is not accepted gives ok = FALSE.   *)
(***************************************************************************)
ParseFail == [ok |-> FALSE, seconds |-> 0, nanos |-> 0]

\* unitMap: a unit's length as [seconds, nanos]; an unknown unit has none.
UnitKnown(u) ==
    u \in {<<"n", "s">>, <<"u", "s">>, <<"m", "s">>, <<"s">>, <<"m">>, <<"h">>}

UnitSeconds(u) ==
    CASE u = <<"s">> -> 1
      [] u = <<"m">> -> 60
      [] u = <<"h">> -> 3600
      [] OTHER -> 0

UnitNanos(u) ==
    CASE u = <<"n", "s">> -> 1
      [] u = <<"u", "s">> -> 1000
      [] u = <<"m", "s">> -> 1000000
      [] OTHER -> 0

\* leadingInt: the value of the leading digits of s and the rest of s.
RECURSIVE leadingInt(_, _)
leadingInt(s, v) ==
    IF s # <<>> /\ IsDigit(Head(s))
      THEN leadingInt(Tail(s), v * 10 + DigitVal(Head(s)))
      ELSE [v |-> v, rest |-> s]

\* leadingFraction: the digits after the period as f / scale, and the rest.
RECURSIVE leadingFraction(_, _, _)
leadingFraction(s, f, scale) ==
    IF s # <<>> /\ IsDigit(Head(s))
      THEN leadingFraction(Tail(s), f * 10 + DigitVal(Head(s)), scale * 10)
      ELSE [f |-> f, scale |-> scale, rest |-> s]

\* The length of the unit that starts s: up to the next '.' or digit.
RECURSIVE UnitLen(_)
UnitLen(s) ==
    IF s = <<>> \/ Head(s) = "." \/ IsDigit(Head(s)) THEN 0
    ELSE 1 + UnitLen(Tail(s))

Billion == 1000 * 1000 * 1000

\* The loop of ParseDuration over the terms of s, d being the sum so far
\* in nanoseconds, kept as dSec seconds and dNano nanoseconds.
RECURSIVE ParseTerms(_, _, _)
ParseTerms(s, dSec, dNano) ==
    IF s = <<>> THEN [ok |-> TRUE, seconds |-> dSec, nanos |-> dNano]
    ELSE IF ~(Head(s) = "." \/ IsDigit(Head(s))) THEN ParseFail
    ELSE
      LET li == leadingInt(s, 0)
          pre == Len(li.rest) # Len(s)
          hasDot == li.rest # <<>> /\ Head(li.rest) = "."
          lf == IF hasDot THEN leadingFraction(Tail(li.rest), 0, 1)
                ELSE [f |-> 0, scale |-> 1, rest |-> li.rest]
          post == hasDot /\ Len(lf.rest) # Len(li.rest) - 1
          i == UnitLen(lf.rest)
          u == SubSeq(lf.rest, 1, i)
          rest == SubSeq(lf.rest, i + 1, Len(lf.rest))
          \* v * unit + f * (unit / scale), in seconds and nanoseconds
          wholeSec == li.v * UnitSeconds(u)
          wholeNano == li.v * UnitNanos(u)
          fracSec == (lf.f * UnitSeconds(u)) \div lf.scale
          fracNano == ((lf.f * UnitSeconds(u)) % lf.scale) * (Billion \div lf.scale)
                      + (lf.f * UnitNanos(u)) \div lf.scale
          nano == dNano + wholeNano + fracNano
      IN  IF ~pre /\ ~post THEN ParseFail
          ELSE IF i = 0 THEN ParseFail
          ELSE IF ~UnitKnown(u) THEN ParseFail
          ELSE ParseTerms(rest, dSec + wholeSec + fracSec + (nano \div Billion),
                          nano % Billion)

ParseDuration(str) ==
    LET signed == str # <<>> /\ Head(str) \in {"-", "+"}
        neg == signed /\ Head(str) = "-"
        s == IF signed THEN Tail(str) ELSE str
    IN  IF s = <<"0">> THEN [ok |-> TRUE, seconds |-> 0, nanos |-> 0]
        ELSE IF s = <<>> THEN ParseFail
        ELSE LET r == ParseTerms(s, 0, 0) IN
             IF r.ok /\ neg
               THEN [ok |-> TRUE, seconds |-> -r.seconds, nanos |-> -r.nanos]
               ELSE r

(***************************************************************************)
(* formatRanges and formatSingleRange: "start[-end][/step]", comma-joined. *)
(***************************************************************************)
Range(start, end, step) == [nil |-> FALSE, Start |-> start, End |-> end, Step |-> step]

FormatSingleRangeAlwaysEnd(r) ==
    IF r.nil THEN <<>>
    ELSE Itoa(r.Start)
         \o (IF r.End >= r.Start THEN <<"-">> \o Itoa(r.End) ELSE <<>>)
         \o (IF r.Step > 1 THEN <<"/">> \o Itoa(r.Step) ELSE <<>>)

\* What formatSingleRange appends to the builder.
formatSingleRange(r) ==
    IF r.nil THEN <<>>
    ELSE Itoa(r.Start)
         \o (IF r.End > r.Start THEN <<"-">> \o Itoa(r.End) ELSE <<>>)
         \o (IF r.Step > 1 THEN <<"/">> \o Itoa(r.Step) ELSE <<>>)

\* The loop of formatRanges from index i on.
RECURSIVE FormatRangesFrom(_, _)
FormatRangesFrom(ranges, i) ==
    IF i > Len(ranges) THEN <<>>
    ELSE (IF i > 1 THEN <<",">> ELSE <<>>)
         \o formatSingleRange(ranges[i])
         \o FormatRangesFrom(ranges, i + 1)

formatRanges(ranges) ==
    IF Len(ranges) = 0 THEN <<>> ELSE FormatRangesFrom(ranges, 1)

(***************************************************************************)
(* The inputs the helpers are applied to.                                  *)
(***************************************************************************)
DurationSeconds ==
    LET pos == {k * 86400 : k \in 0..MaxDays}
               \cup {k * 3600 : k \in 0..MaxHours}
               \cup {k * 60 : k \in 0..MaxMinutes}
               \cup (0..MaxSeconds)
               \cup {86400 + 3600, 86400 + 60, 3600 + 60, 3600 + 1, 90061}
    IN  pos \cup {-s : s \in pos}

DurationInputs ==
    {NilDuration} \cup {Duration(s, n) : s \in DurationSeconds, n \in {0, 500000000}}

RangeInputs ==
    {Range(a, b, c) : a \in 0..MaxRangeVal, b \in 0..MaxRangeVal, c \in 0..MaxStep}

\* Lists of up to MaxRanges ranges; the longer ones vary the first two
\* elements and repeat the second.
RangeListInputs ==
    {<<>>} \cup {<<r>> : r \in RangeInputs}
    \cup {[i \in 1..n |-> IF i = 1 THEN r1 ELSE r2] :
            r1 \in RangeInputs, r2 \in {Range(a, a + d, d) : a \in {0, 9}, d \in 0..MaxStep},
            n \in 2..MaxRanges}

(***************************************************************************)
(* The helpers applied: one action per helper.                             *)
(***************************************************************************)
FmtInit ==
    /\ fmtOp = "idle"
    /\ durArg = NilDuration
    /\ durRet = <<>>
    /\ durParsed = ParseFail
    /\ rngArg = <<>>
    /\ rngRet = <<>>

\* convertScheduleSpec / convertScheduleAction format a duration of the
\* wire value; convertToScheduleSpec and the others parse it on the way back.
FormatDuration ==
    /\ UNCHANGED exceptFmt
    /\ \E d \in DurationInputs :
           /\ fmtOp = "idle"
           /\ fmtOp' = "formatDurationCanonical"
           /\ durArg' = d
           /\ durRet' = formatDurationCanonical(d)
           /\ durParsed' = ParseDuration(formatDurationCanonical(d))
           /\ rngArg' = <<>>
           /\ rngRet' = <<>>

FormatRanges ==
    /\ UNCHANGED exceptFmt
    /\ \E rs \in RangeListInputs :
           /\ fmtOp = "idle"
           /\ fmtOp' = "formatRanges"
           /\ rngArg' = rs
           /\ rngRet' = formatRanges(rs)
           /\ durArg' = NilDuration
           /\ durRet' = <<>>
           /\ durParsed' = ParseFail

FmtNext == FormatDuration \/ FormatRanges

(***************************************************************************)
(* The namespace resource (NamespaceResource).                             *)
(***************************************************************************)
NamespaceName == "ns1"

ClusterNames == {"c1", "c2"}

\* Replica cluster lists: non-empty lists of distinct cluster names.
ClusterLists ==
    {l \in UNION {[1..n -> ClusterNames] : n \in 1..MaxClusters} :
        \A i, j \in DOMAIN l : l[i] = l[j] => i = j}

InList(c, l) == \E i \in DOMAIN l : l[i] = c

\* A decoded NamespaceResourceModel; null stands for "no resource in state".
NullModel == [null |-> TRUE, name |-> "", id |-> "", active |-> "", clusters |-> <<>>]

NamespaceResourceModel(name, id, active, clusters) ==
    [null |-> FALSE, name |-> name, id |-> id, active |-> active, clusters |-> clusters]

\* The plans Terraform can hand to Create and Update: active_cluster_name is
\* optional (unknown decodes to the empty string), id is computed.
NsPlans ==
    {NamespaceResourceModel(NamespaceName, "", a, l) :
        a \in ClusterNames \cup {""}, l \in ClusterLists}

Diag(severity, summary) == [severity |-> severity, summary |-> summary]

HasError(diags) == \E i \in DOMAIN diags : diags[i].severity = "error"

\* Errors of the generated gRPC stubs are status errors, whatever their code.
GrpcError(code) == [goType |-> "*status.Error", code |-> code]

NilError == [goType |-> "nil", code |-> "OK"]

IsNamespaceAlreadyExists(err) == err.goType = "*serviceerror.NamespaceAlreadyExists"

NoNamespace(clusters) == [exists |-> FALSE, id |-> "", active |-> "", clusters |-> clusters]

\* The server's answer to RegisterNamespace: the error, or the namespace it
\* registered (in the clusters the server is configured with).
RegisterNamespace(backend, request) ==
    IF backend.exists THEN {[err |-> GrpcError("AlreadyExists"), backend |-> backend]}
    ELSE {[err |-> GrpcError("Unavailable"), backend |-> backend]}
         \cup (IF request.active # "" /\ ~InList(request.active, backend.clusters)
               THEN {[err |-> GrpcError("InvalidArgument"), backend |-> backend]}
               ELSE {[err |-> [goType |-> "nil", code |-> "OK"],
                      backend |-> [exists |-> TRUE, id |-> "id1",
                                   active |-> IF request.active = ""
                                              THEN backend.clusters[1]
                                              ELSE request.active,
                                   clusters |-> backend.clusters]]})

DescribeNamespace(backend) ==
    IF ~backend.exists THEN {[err |-> GrpcError("NotFound"), ns |-> backend]}
    ELSE {[err |-> GrpcError("Unavailable"), ns |-> backend],
          [err |-> [goType |-> "nil", code |-> "OK"], ns |-> backend]}

\* The server's answer to UpdateNamespace; the request carries the active
\* cluster name only (an empty name leaves the active cluster alone).
UpdateNamespace(backend, request) ==
    IF ~backend.exists THEN {[err |-> GrpcError("NotFound"), backend |-> backend]}
    ELSE {[err |-> GrpcError("Unavailable"), backend |-> backend]}
         \cup (IF request.active # "" /\ ~InList(request.active, backend.clusters)
               THEN {[err |-> GrpcError("InvalidArgument"), backend |-> backend]}
               ELSE {[err |-> [goType |-> "nil", code |-> "OK"],
                      backend |-> [backend EXCEPT !.active =
                                      IF request.active = "" THEN @ ELSE request.active]]})

DeleteNamespace(backend) ==
    IF ~backend.exists THEN {[err |-> GrpcError("NotFound"), backend |-> backend]}
    ELSE {[err |-> GrpcError("Unavailable"), backend |-> backend],
          [err |-> [goType |-> "nil", code |-> "OK"],
           backend |-> NoNamespace(backend.clusters)]}

\* Create after an error of RegisterNamespace, the error told by its code.
RegisterFailedByCode(err, name) ==
    IF err.code # "AlreadyExists"
    THEN <<Diag("error", "Request error")>>
    ELSE <<Diag("error", name)>>

\* Create after an error of RegisterNamespace: the type assertion
\* err.(*serviceerror.NamespaceAlreadyExists) picks the diagnostic.
RegisterFailed(err, name) ==
    IF ~IsNamespaceAlreadyExists(err)
    THEN <<Diag("error", "Request error")>>
    ELSE <<Diag("error", name)>>

\* Read after an error of DescribeNamespace, not found taken as an error.
DescribeFailedHard(err) == <<Diag("error", "Client Error")>>

\* Read after an error of DescribeNamespace: not found is logged as a
\* warning (no diagnostic of the response), any other error is reported.
DescribeFailed(err) ==
    IF err.code = "NotFound"
    THEN <<Diag("warning-log", "Namespace not found")>>
    ELSE <<Diag("error", "Client Error")>>

NsIdle ==
    /\ nsState = NullModel
    /\ nsBackend = NoNamespace(<<"c1">>)
    /\ nsOp = "idle"
    /\ nsPrior = NullModel
    /\ nsPlan = NullModel
    /\ nsDiags = <<>>
    /\ nsCalls = <<>>
    /\ nsErr = NilError

NsInit ==
    /\ nsState = NullModel
    /\ nsBackend \in {NoNamespace(l) : l \in ClusterLists}
    /\ nsOp = "idle"
    /\ nsPrior = NullModel
    /\ nsPlan = NullModel
    /\ nsDiags = <<>>
    /\ nsCalls = <<>>
    /\ nsErr = NilError

\* Create: RegisterNamespace, then DescribeNamespace, then State.Set.
NsCreate ==
    /\ UNCHANGED exceptNs
    /\ \E plan \in NsPlans : \E reg \in RegisterNamespace(nsBackend, plan) :
           /\ nsState.null
           /\ nsOp' = "Create"
           /\ nsPrior' = NullModel
           /\ nsPlan' = plan
           /\ nsBackend' = reg.backend
           /\ IF reg.err.goType # "nil"
              THEN /\ nsDiags' = RegisterFailed(reg.err, plan.name)
                   /\ nsCalls' = <<"RegisterNamespace">>
                   /\ nsErr' = reg.err
                   /\ nsState' = nsState
              ELSE \E desc \in DescribeNamespace(reg.backend) :
                     /\ nsCalls' = <<"RegisterNamespace", "DescribeNamespace">>
                     /\ nsErr' = desc.err
                     /\ IF desc.err.goType # "nil"
                        THEN /\ nsDiags' = <<Diag("error", "Client Error")>>
                             /\ nsState' = nsState
                        ELSE /\ nsDiags' = <<>>
                             /\ nsState' = [plan EXCEPT !.id = desc.ns.id,
                                                        !.active = desc.ns.active]

\* Read: DescribeNamespace; not found is only logged, any other error is a
\* diagnostic, and in both cases the state is left as it was.
NsRead ==
    /\ UNCHANGED exceptNs
    /\ \E desc \in DescribeNamespace(nsBackend) :
           /\ ~nsState.null
           /\ nsOp' = "Read"
           /\ nsPrior' = nsState
           /\ nsPlan' = NullModel
           /\ nsCalls' = <<"DescribeNamespace">>
           /\ nsErr' = desc.err
           /\ nsBackend' = nsBackend
           /\ IF desc.err.goType # "nil"
              THEN /\ nsDiags' = DescribeFailed(desc.err)
                   /\ nsState' = nsState
              ELSE /\ nsDiags' = <<>>
                   /\ nsState' = [nsState EXCEPT !.id = desc.ns.id,
                                                 !.active = desc.ns.active]

\* Update: decodes the plan, sends UpdateNamespace with the plan's values,
\* then State.Set. The prior state is not read.
NsUpdate ==
    /\ UNCHANGED exceptNs
    /\ \E plan \in NsPlans : \E upd \in UpdateNamespace(nsBackend, plan) :
           /\ ~nsState.null
           /\ nsOp' = "Update"
           /\ nsPrior' = nsState
           /\ nsPlan' = [plan EXCEPT !.id = nsState.id]
           /\ nsCalls' = <<"UpdateNamespace">>
           /\ nsErr' = upd.err
           /\ nsBackend' = upd.backend
           /\ IF upd.err.goType # "nil"
              THEN /\ nsDiags' =
                        IF ~IsNamespaceAlreadyExists(upd.err)
                        THEN <<Diag("error", "Request error")>>
                        ELSE <<Diag("error", plan.name)>>
                   /\ nsState' = nsState
              ELSE /\ nsDiags' = <<>>
                   /\ nsState' = [plan EXCEPT !.id = upd.backend.id,
                                              !.active = upd.backend.active]

\* Delete: DeleteNamespace; the framework drops the state when the handler
\* returns without an error diagnostic.
NsDelete ==
    /\ UNCHANGED exceptNs
    /\ \E del \in DeleteNamespace(nsBackend) :
           /\ ~nsState.null
           /\ nsOp' = "Delete"
           /\ nsPrior' = nsState
           /\ nsPlan' = NullModel
           /\ nsCalls' = <<"DeleteNamespace">>
           /\ nsErr' = del.err
           /\ nsBackend' = del.backend
           /\ IF del.err.goType # "nil"
              THEN /\ nsDiags' = <<Diag("error", "Request error")>>
                   /\ nsState' = nsState
              ELSE /\ nsDiags' = <<>>
                   /\ nsState' = NullModel

\* Another resource with the same name, or another client, registers the
\* namespace: its RegisterNamespace call succeeds.
NsCreateElsewhere ==
    /\ UNCHANGED exceptNs
    /\ \E plan \in NsPlans : \E reg \in RegisterNamespace(nsBackend, plan) :
           /\ reg.err.goType = "nil"
           /\ nsBackend' = reg.backend
    /\ UNCHANGED <<nsState, nsOp, nsPrior, nsPlan, nsDiags, nsCalls, nsErr>>

\* The namespace is deleted outside this resource.
NsDeleteElsewhere ==
    /\ UNCHANGED exceptNs
    /\ \E del \in DeleteNamespace(nsBackend) :
           /\ del.err.goType = "nil"
           /\ nsBackend' = del.backend
    /\ UNCHANGED <<nsState, nsOp, nsPrior, nsPlan, nsDiags, nsCalls, nsErr>>

NsNext ==
    \/ NsCreate
    \/ NsRead
    \/ NsUpdate
    \/ NsDelete
    \/ NsCreateElsewhere
    \/ NsDeleteElsewhere

(***************************************************************************)
(* The search attribute resource (SearchAttributeResource) and the poll    *)
(* AwaitAddSearchAttributes.                                               *)
(***************************************************************************)
Procs == {1, 2}

\* ListSearchAttributes: a call whose context is done fails; any call may
\* fail; otherwise the response has the attribute among the custom
\* attributes exactly when it is visible.
ListSearchAttributes(ctxDone, backend) ==
    IF ctxDone
    THEN {[err |-> GrpcError("DeadlineExceeded"), custom |-> FALSE, visible |-> backend = "visible"]}
    ELSE {[err |-> GrpcError("Unavailable"), custom |-> FALSE, visible |-> backend = "visible"],
          [err |-> NilError, custom |-> backend = "visible", visible |-> backend = "visible"]}

\* AddSearchAttributes: adds an absent attribute (visible to list calls only
\* later); adding a registered one is either refused or accepted unchanged.
AddSearchAttributes(ctxDone, backend) ==
    IF ctxDone THEN {[err |-> GrpcError("DeadlineExceeded"), backend |-> backend]}
    ELSE {[err |-> GrpcError("Unavailable"), backend |-> backend]}
         \cup (IF backend = "absent"
               THEN {[err |-> NilError, backend |-> "pending"]}
               ELSE {[err |-> NilError, backend |-> backend],
                     [err |-> GrpcError("AlreadyExists"), backend |-> backend]})

RemoveSearchAttributes(backend) ==
    IF backend = "absent" THEN {[err |-> GrpcError("NotFound"), backend |-> backend]}
    ELSE {[err |-> GrpcError("Unavailable"), backend |-> backend],
          [err |-> NilError, backend |-> "absent"]}

IsAlreadyExists(err) == err.goType = "*serviceerror.AlreadyExists"

IsNotFound(err) == err.goType = "*serviceerror.NotFound"

\* The tick branch of the select, after the list call: "continue" polls again.
AwaitOnTickIgnoringErrors(resp) ==
    IF resp.err.goType = "nil" /\ resp.custom THEN "nil" ELSE "continue"

AwaitOnTickNeverSeen(resp) ==
    IF resp.err.goType # "nil" THEN "listErr" ELSE "continue"

\* The tick branch when an error of the server, not of the context, is
\* tried again.
AwaitOnTickRetrying(resp) ==
    IF resp.err.goType # "nil" /\ resp.err.code = "Unavailable" THEN "continue"
    ELSE IF resp.err.goType # "nil" THEN "listErr"
    ELSE IF resp.custom THEN "nil"
    ELSE "continue"

AwaitOnTick(resp) ==
    IF resp.err.goType # "nil" THEN "listErr"
    ELSE IF resp.custom THEN "nil"
    ELSE "continue"

\* Create when the state is stored whatever the poll returned.
CreateAfterAwaitStoring(ret) == [diags |-> <<>>, state |-> TRUE]

\* The rest of Create once AwaitAddSearchAttributes has returned ret.
CreateAfterAwait(ret) ==
    IF ret # "nil"
    THEN [diags |-> <<Diag("error", "Request Error: Error awaiting results")>>, state |-> FALSE]
    ELSE [diags |-> <<>>, state |-> TRUE]

\* Create after its first ListSearchAttributes, the test of the custom
\* attributes left out.
CreateAfterListUnchecked(resp) ==
    IF resp.err.goType # "nil"
    THEN [diags |-> <<Diag("error", "Client Error")>>, pc |-> "ready"]
    ELSE [diags |-> <<>>, pc |-> "Create:add"]

\* Create after its first ListSearchAttributes: it ends on an error of the
\* call and on a custom attribute of the name, else it goes on to add.
CreateAfterList(resp) ==
    IF resp.err.goType # "nil"
    THEN [diags |-> <<Diag("error", "Client Error")>>, pc |-> "ready"]
    ELSE IF resp.custom
    THEN [diags |-> <<Diag("error", "Already Exists")>>, pc |-> "ready"]
    ELSE [diags |-> <<>>, pc |-> "Create:add"]

NoCheck == [failed |-> FALSE, custom |-> FALSE]

\* data.Type of the configuration of each instance: two resources that
\* name the same attribute with different types.
TypeOf(p) == IF p = 1 THEN "Keyword" ELSE "Int"

\* The type the server has for the attribute after a call: the requested
\* one once it adds the attribute, none once it removes it, else as before.
Registered(before, type, after, requested) ==
    IF after = "absent" THEN "none"
    ELSE IF before = "absent" THEN requested
    ELSE type

SaIdle ==
    /\ saBackend = "absent"
    /\ saPc = [p \in Procs |-> "ready"]
    /\ saOp = [p \in Procs |-> "idle"]
    /\ saState = [p \in Procs |-> FALSE]
    /\ saDiags = [p \in Procs |-> <<>>]
    /\ saCalls = [p \in Procs |-> <<>>]
    /\ saCtxDone = [p \in Procs |-> FALSE]
    /\ saTick = [p \in Procs |-> FALSE]
    /\ saTicks = [p \in Procs |-> 0]
    /\ saPolls = [p \in Procs |-> <<>>]
    /\ saAwaitRet = [p \in Procs |-> "none"]
    /\ saCheck = [p \in Procs |-> NoCheck]
    /\ saType = "none"

SaInit == SaIdle

\* Create, up to the existence check (the first ListSearchAttributes).
SACreateCheck(p) ==
    /\ UNCHANGED exceptSa
    /\ saPc[p] = "ready"
    /\ ~saState[p]
    /\ \E resp \in ListSearchAttributes(FALSE, saBackend) :
          /\ saOp' = [saOp EXCEPT ![p] = "Create"]
          /\ saCalls' = [saCalls EXCEPT ![p] = <<"ListSearchAttributes">>]
          /\ saCtxDone' = [saCtxDone EXCEPT ![p] = FALSE]
          /\ saTick' = [saTick EXCEPT ![p] = FALSE]
          /\ saTicks' = [saTicks EXCEPT ![p] = 0]
          /\ saPolls' = [saPolls EXCEPT ![p] = <<>>]
          /\ saAwaitRet' = [saAwaitRet EXCEPT ![p] = "none"]
          /\ saCheck' = [saCheck EXCEPT ![p] =
                            [failed |-> resp.err.goType # "nil", custom |-> resp.custom]]
          /\ saDiags' = [saDiags EXCEPT ![p] = CreateAfterList(resp).diags]
          /\ saPc' = [saPc EXCEPT ![p] = CreateAfterList(resp).pc]
    /\ UNCHANGED <<saBackend, saType, saState>>

\* Create: the AddSearchAttributes call; on success the poll starts.
SACreateAdd(p) ==
    /\ UNCHANGED exceptSa
    /\ saPc[p] = "Create:add"
    /\ \E resp \in AddSearchAttributes(saCtxDone[p], saBackend) :
          /\ saCalls' = [saCalls EXCEPT ![p] = Append(@, "AddSearchAttributes")]
          /\ saBackend' = resp.backend
          /\ saType' = Registered(saBackend, saType, resp.backend, TypeOf(p))
          /\ IF resp.err.goType # "nil"
             THEN /\ saDiags' = [saDiags EXCEPT ![p] =
                        IF IsAlreadyExists(resp.err)
                        THEN <<Diag("error", "Request Error")>>
                        ELSE <<Diag("error", "Request error")>>]
                  /\ saPc' = [saPc EXCEPT ![p] = "ready"]
             ELSE /\ saDiags' = saDiags
                  /\ saPc' = [saPc EXCEPT ![p] = "Create:await"]
    /\ UNCHANGED <<saOp, saState, saCtxDone, saTick, saTicks, saPolls, saAwaitRet, saCheck>>

\* The ticker delivers a tick (ticker.C holds at most one).
SATick(p) ==
    /\ UNCHANGED exceptSa
    /\ saPc[p] = "Create:await"
    /\ ~saTick[p]
    /\ saTicks[p] < MaxTicks
    /\ saTick' = [saTick EXCEPT ![p] = TRUE]
    /\ saTicks' = [saTicks EXCEPT ![p] = @ + 1]
    /\ UNCHANGED <<saBackend, saType, saPc, saOp, saState, saDiags, saCalls, saCtxDone,
                   saPolls, saAwaitRet, saCheck>>

\* The select takes the tick: one ListSearchAttributes call, then either the
\* poll goes on or AwaitAddSearchAttributes returns and Create finishes.
SAAwaitTick(p) ==
    /\ UNCHANGED exceptSa
    /\ saPc[p] = "Create:await"
    /\ saTick[p]
    /\ \E resp \in ListSearchAttributes(saCtxDone[p], saBackend) :
          LET ret == AwaitOnTick(resp) IN
          /\ saTick' = [saTick EXCEPT ![p] = FALSE]
          /\ saCalls' = [saCalls EXCEPT ![p] = Append(@, "ListSearchAttributes")]
          /\ saPolls' = [saPolls EXCEPT ![p] =
                            Append(@, [ctxDone |-> saCtxDone[p],
                                       failed |-> resp.err.goType # "nil",
                                       visible |-> resp.visible])]
          /\ IF ret = "continue"
             THEN UNCHANGED <<saPc, saAwaitRet, saDiags, saState>>
             ELSE /\ saAwaitRet' = [saAwaitRet EXCEPT ![p] = ret]
                  /\ saPc' = [saPc EXCEPT ![p] = "ready"]
                  /\ saDiags' = [saDiags EXCEPT ![p] = CreateAfterAwait(ret).diags]
                  /\ saState' = [saState EXCEPT ![p] = CreateAfterAwait(ret).state]
    /\ UNCHANGED <<saBackend, saType, saOp, saCtxDone, saTicks, saCheck>>

\* The select takes ctx.Done(): AwaitAddSearchAttributes returns ctx.Err().
SAAwaitDone(p) ==
    /\ UNCHANGED exceptSa
    /\ saPc[p] = "Create:await"
    /\ saCtxDone[p]
    /\ saAwaitRet' = [saAwaitRet EXCEPT ![p] = "ctx.Err"]
    /\ saPc' = [saPc EXCEPT ![p] = "ready"]
    /\ saDiags' = [saDiags EXCEPT ![p] = CreateAfterAwait("ctx.Err").diags]
    /\ saState' = [saState EXCEPT ![p] = CreateAfterAwait("ctx.Err").state]
    /\ UNCHANGED <<saBackend, saType, saOp, saCalls, saCtxDone, saTick, saTicks, saPolls, saCheck>>

\* The context of a running Create is cancelled or its deadline passes.
SACancel(p) ==
    /\ UNCHANGED exceptSa
    /\ saPc[p] \in {"Create:add", "Create:await"}
    /\ ~saCtxDone[p]
    /\ saCtxDone' = [saCtxDone EXCEPT ![p] = TRUE]
    /\ UNCHANGED <<saBackend, saType, saPc, saOp, saState, saDiags, saCalls, saTick, saTicks,
                   saPolls, saAwaitRet, saCheck>>

\* The server makes an added attribute visible to list calls.
SAPropagate ==
    /\ UNCHANGED exceptSa
    /\ saBackend = "pending"
    /\ saBackend' = "visible"
    /\ saType' = saType
    /\ UNCHANGED <<saPc, saOp, saState, saDiags, saCalls, saCtxDone, saTick, saTicks,
                   saPolls, saAwaitRet, saCheck>>

\* Read: one list call; an attribute not among the custom ones is removed
\* from state.
SARead(p) ==
    /\ UNCHANGED exceptSa
    /\ saPc[p] = "ready"
    /\ saState[p]
    /\ \E resp \in ListSearchAttributes(FALSE, saBackend) :
          /\ saOp' = [saOp EXCEPT ![p] = "Read"]
          /\ saCalls' = [saCalls EXCEPT ![p] = <<"ListSearchAttributes">>]
          /\ IF resp.err.goType # "nil"
             THEN /\ saDiags' = [saDiags EXCEPT ![p] = <<Diag("error", "Client Error")>>]
                  /\ saState' = saState
             ELSE /\ saDiags' = [saDiags EXCEPT ![p] = <<>>]
                  /\ saState' = [saState EXCEPT ![p] = resp.custom]
    /\ UNCHANGED <<saBackend, saType, saPc, saCtxDone, saTick, saTicks, saPolls, saAwaitRet, saCheck>>

\* An Update that sends the planned type to the server.
SAUpdateAdding(p) ==
    /\ UNCHANGED exceptSa
    /\ saPc[p] = "ready"
    /\ saState[p]
    /\ saOp' = [saOp EXCEPT ![p] = "Update"]
    /\ saCalls' = [saCalls EXCEPT ![p] = <<"AddSearchAttributes">>]
    /\ saDiags' = [saDiags EXCEPT ![p] = <<>>]
    /\ saType' = TypeOf(p)
    /\ UNCHANGED <<saBackend, saPc, saState, saCtxDone, saTick, saTicks, saPolls,
                   saAwaitRet, saCheck>>

\* Update only logs a warning.
SAUpdate(p) ==
    /\ UNCHANGED exceptSa
    /\ saPc[p] = "ready"
    /\ saState[p]
    /\ saOp' = [saOp EXCEPT ![p] = "Update"]
    /\ saCalls' = [saCalls EXCEPT ![p] = <<>>]
    /\ saDiags' = [saDiags EXCEPT ![p] = <<>>]
    /\ UNCHANGED <<saBackend, saType, saPc, saState, saCtxDone, saTick, saTicks, saPolls,
                   saAwaitRet, saCheck>>

\* Delete: RemoveSearchAttributes; the framework drops the state when the
\* handler returns without an error diagnostic.
SADelete(p) ==
    /\ UNCHANGED exceptSa
    /\ saPc[p] = "ready"
    /\ saState[p]
    /\ \E resp \in RemoveSearchAttributes(saBackend) :
          /\ saOp' = [saOp EXCEPT ![p] = "Delete"]
          /\ saCalls' = [saCalls EXCEPT ![p] = <<"RemoveSearchAttributes">>]
          /\ saBackend' = resp.backend
          /\ saType' = Registered(saBackend, saType, resp.backend, TypeOf(p))
          /\ IF resp.err.goType # "nil"
             THEN /\ saDiags' = [saDiags EXCEPT ![p] = <<Diag("error", "Request error")>>]
                  /\ saState' = saState
             ELSE /\ saDiags' = [saDiags EXCEPT ![p] = <<>>]
                  /\ saState' = [saState EXCEPT ![p] = FALSE]
    /\ UNCHANGED <<saPc, saCtxDone, saTick, saTicks, saPolls, saAwaitRet, saCheck>>

SaNext ==
    \/ \E p \in Procs : SACreateCheck(p)
    \/ \E p \in Procs : SACreateAdd(p)
    \/ \E p \in Procs : SATick(p)
    \/ \E p \in Procs : SAAwaitTick(p)
    \/ \E p \in Procs : SAAwaitDone(p)
    \/ \E p \in Procs : SACancel(p)
    \/ SAPropagate
    \/ \E p \in Procs : SARead(p)
    \/ \E p \in Procs : SAUpdate(p)
    \/ \E p \in Procs : SADelete(p)

(***************************************************************************)
(* ImportState of SearchAttributeResource and ScheduleResource.            *)
(***************************************************************************)
IdChars == {"a", "b", ":"}

ImportIds == UNION {[1..n -> IdChars] : n \in 0..MaxIdLen}

StrDefault == <<"d", "e", "f", "a", "u", "l", "t">>

\* strings.Split(s, ":").
RECURSIVE Split(_)
Split(s) ==
    IF \A i \in DOMAIN s : s[i] # ":" THEN <<s>>
    ELSE LET i == CHOOSE k \in DOMAIN s : s[k] = ":" /\ \A j \in 1..(k - 1) : s[j] # ":"
         IN  <<SubSeq(s, 1, i - 1)>> \o Split(SubSeq(s, i + 1, Len(s)))

\* The switch on len(idTokens), without its default case.
ParseImportIDFirstTwo(id) ==
    LET idTokens == Split(id) IN
    IF Len(idTokens) = 1
    THEN [ok |-> TRUE, namespace |-> StrDefault, name |-> idTokens[1]]
    ELSE [ok |-> TRUE, namespace |-> idTokens[1], name |-> idTokens[2]]

\* The switch on len(idTokens) of both ImportState handlers.
ParseImportID(id) ==
    LET idTokens == Split(id) IN
    CASE Len(idTokens) = 1 ->
            [ok |-> TRUE, namespace |-> StrDefault, name |-> idTokens[1]]
      [] Len(idTokens) = 2 ->
            [ok |-> TRUE, namespace |-> idTokens[1], name |-> idTokens[2]]
      [] OTHER ->
            [ok |-> FALSE, namespace |-> <<>>, name |-> <<>>]

NoImportState == [set |-> FALSE, namespace |-> <<>>, name |-> <<>>, type |-> ""]

\* The names the server can have an attribute for.
AttrNames == {<<"a">>}

\* A map of attribute names to types, as a set of <<name, type>> entries.
NoAttributes == {}

CustomAttributes == {NoAttributes} \cup {{<<n, "Int">>} : n \in AttrNames}

SystemAttributes == {NoAttributes} \cup {{<<n, "Keyword">>} : n \in AttrNames}

\* What ListSearchAttributes can answer: an error, or the two maps.
NoListAnswer == [failed |-> TRUE, custom |-> NoAttributes, system |-> NoAttributes]

ListAnswers ==
    {NoListAnswer} \cup
    {[failed |-> FALSE, custom |-> c, system |-> s] :
        c \in CustomAttributes, s \in SystemAttributes}

\* v, found = m[k]: the zero value of the enum when the key is absent.
MapGet(m, k) ==
    IF \E entry \in m : entry[1] = k
    THEN [found |-> TRUE, value |-> (CHOOSE entry \in m : entry[1] = k)[2]]
    ELSE [found |-> FALSE, value |-> "Unspecified"]

\* An import that looks among the system attributes as well.
ImportFoundAnywhere(resp, namespace, attributeName) ==
    IF resp.failed
    THEN [diags |-> <<Diag("error", "Client Error")>>, state |-> NoImportState]
    ELSE IF MapGet(resp.custom \cup resp.system, attributeName).found
    THEN [diags |-> <<>>,
          state |-> [set |-> TRUE, namespace |-> namespace, name |-> attributeName,
                     type |-> MapGet(resp.custom \cup resp.system, attributeName).value]]
    ELSE [diags |-> <<Diag("error", "Not Found")>>, state |-> NoImportState]

\* ImportState after the list call: the name is looked up among the custom
\* attributes.
ImportFound(resp, namespace, attributeName) ==
    IF resp.failed
    THEN [diags |-> <<Diag("error", "Client Error")>>, state |-> NoImportState]
    ELSE IF MapGet(resp.custom, attributeName).found
    THEN [diags |-> <<>>,
          state |-> [set |-> TRUE, namespace |-> namespace, name |-> attributeName,
                     type |-> MapGet(resp.custom, attributeName).value]]
    ELSE [diags |-> <<Diag("error", "Not Found")>>, state |-> NoImportState]

ImpIdle ==
    /\ impOp = "idle"
    /\ impId = <<>>
    /\ impCalls = <<>>
    /\ impResp = NoListAnswer
    /\ impDiags = <<>>
    /\ impState = NoImportState

ImpInit == ImpIdle

\* SearchAttributeResource.ImportState: the identifier is split, the
\* attributes of the namespace are listed, the name is looked up.
SAImportState ==
    /\ UNCHANGED exceptImp
    /\ impOp = "idle"
    /\ \E id \in ImportIds, resp \in ListAnswers :
          /\ impOp' = "SearchAttribute.ImportState"
          /\ impId' = id
          /\ IF ~ParseImportID(id).ok
             THEN /\ impDiags' = <<Diag("error", "Invalid ID format")>>
                  /\ impCalls' = <<>>
                  /\ impResp' = NoListAnswer
                  /\ impState' = NoImportState
             ELSE /\ impCalls' = <<[call |-> "ListSearchAttributes",
                                    namespace |-> ParseImportID(id).namespace,
                                    name |-> <<>>]>>
                  /\ impResp' = resp
                  /\ impDiags' = ImportFound(resp, ParseImportID(id).namespace,
                                             ParseImportID(id).name).diags
                  /\ impState' = ImportFound(resp, ParseImportID(id).namespace,
                                             ParseImportID(id).name).state

\* ScheduleResource.ImportState: DescribeSchedule fails or succeeds.
ScheduleImportState ==
    /\ UNCHANGED exceptImp
    /\ impOp = "idle"
    /\ \E id \in ImportIds, answer \in {"error", "ok"} :
          LET parsed == ParseImportID(id) IN
          /\ impOp' = "Schedule.ImportState"
          /\ impId' = id
          /\ impResp' = NoListAnswer
          /\ IF ~parsed.ok
             THEN /\ impDiags' = <<Diag("error", "Invalid ID format")>>
                  /\ impCalls' = <<>>
                  /\ impState' = NoImportState
             ELSE /\ impCalls' = <<[call |-> "DescribeSchedule",
                                    namespace |-> parsed.namespace,
                                    name |-> parsed.name]>>
                  /\ impDiags' = IF answer = "error"
                                 THEN <<Diag("error", "Import Failed")>>
                                 ELSE <<>>
                  /\ impState' = IF answer = "ok"
                                 THEN [set |-> TRUE, namespace |-> parsed.namespace,
                                       name |-> parsed.name, type |-> ""]
                                 ELSE NoImportState

ImpNext == SAImportState \/ ScheduleImportState

(***************************************************************************)
(* The schedule resource (ScheduleResource): conversions to the wire.      *)
(***************************************************************************)
\* types.String: null, or a known value.
NullStr == [null |-> TRUE, value |-> <<>>]

Str(v) == [null |-> FALSE, value |-> v]

Dur1h == <<"1", "h">>

Dur5m == <<"5", "m">>

Dur30s == <<"3", "0", "s">>

Dur10s == <<"1", "0", "s">>

Dur2d == <<"2", "d">>

Dur48h == <<"4", "8", "h">>

DurAbc == <<"a", "b", "c">>

TimeUtc == <<"2", "0", "2", "4", "-", "0", "1", "-", "0", "1", "T", "0", "0", ":", "0", "0", ":", "0", "0", "Z">>

TimeZoned == <<"2", "0", "2", "4", "-", "0", "2", "-", "2", "9", "T", "2", "3", ":", "5", "9", ":", "5", "9", ".", "5", "+", "0", "2", ":", "0", "0">>

TimeBadMonth == <<"2", "0", "2", "4", "-", "1", "3", "-", "0", "1", "T", "0", "0", ":", "0", "0", ":", "0", "0", "Z">>

TimeDateOnly == <<"2", "0", "2", "4", "-", "0", "1", "-", "0", "1">>

\* Decimal value of the digits s[from..to]; -1 when one is not a digit.
RECURSIVE DigitsVal(_, _, _)
DigitsVal(s, from, to) ==
    IF to < from THEN 0
    ELSE IF ~IsDigit(s[to]) THEN -1
    ELSE LET rest == DigitsVal(s, from, to - 1)
         IN  IF rest < 0 THEN -1 ELSE rest * 10 + DigitVal(s[to])

IsLeap(year) == year % 4 = 0 /\ (year % 100 # 0 \/ year % 400 = 0)

DaysIn(month, year) ==
    CASE month = 2 -> IF IsLeap(year) THEN 29 ELSE 28
      [] month \in {4, 6, 9, 11} -> 30
      [] OTHER -> 31

\* Number of leading digits of s from position i.
RECURSIVE DigitRun(_, _)
DigitRun(s, i) ==
    IF i > Len(s) \/ ~IsDigit(s[i]) THEN 0 ELSE 1 + DigitRun(s, i + 1)

\* time.Parse(time.RFC3339, s), layout "2006-01-02T15:04:05Z07:00": the
\* date and clock fields in range, an optional fraction after the seconds,
\* then Z or a numeric zone offset.
ParseRFC3339(s) ==
    LET fail == [ok |-> FALSE, year |-> 0, month |-> 0, day |-> 0, hour |-> 0,
                 min |-> 0, sec |-> 0, frac |-> <<>>, zone |-> <<>>]
    IN
    IF Len(s) < 20 THEN fail
    ELSE
    LET year == DigitsVal(s, 1, 4)
        month == DigitsVal(s, 6, 7)
        day == DigitsVal(s, 9, 10)
        hour == DigitsVal(s, 12, 13)
        min == DigitsVal(s, 15, 16)
        sec == DigitsVal(s, 18, 19)
        fracLen == IF s[20] \in {".", ","} /\ DigitRun(s, 21) > 0
                   THEN 1 + DigitRun(s, 21) ELSE 0
        z == 20 + fracLen
        zone == IF z > Len(s) THEN <<>> ELSE SubSeq(s, z, Len(s))
        zoneOk ==
            \/ zone = <<"Z">>
            \/ /\ Len(zone) = 6
               /\ zone[1] \in {"+", "-"}
               /\ zone[4] = ":"
               /\ DigitsVal(zone, 2, 3) >= 0 /\ DigitsVal(zone, 2, 3) <= 24
               /\ DigitsVal(zone, 5, 6) >= 0 /\ DigitsVal(zone, 5, 6) <= 60
    IN
    IF /\ year >= 0 /\ s[5] = "-" /\ month >= 1 /\ month <= 12 /\ s[8] = "-"
       /\ day >= 1 /\ day <= DaysIn(month, year) /\ s[11] = "T"
       /\ hour >= 0 /\ hour <= 23 /\ s[14] = ":" /\ min >= 0 /\ min <= 59
       /\ s[17] = ":" /\ sec >= 0 /\ sec <= 59
       /\ zoneOk
    THEN [ok |-> TRUE, year |-> year, month |-> month, day |-> day, hour |-> hour,
          min |-> min, sec |-> sec,
          frac |-> IF fracLen = 0 THEN <<>> ELSE SubSeq(s, 21, 19 + fracLen),
          zone |-> zone]
    ELSE fail

\* The wire value of a field that is not set.
Nil == [nil |-> TRUE]

\* durationpb.New of a parsed duration.
DurationPb(parsed) == Duration(parsed.seconds, parsed.nanos)

\* A timeout of convertToScheduleAction whose parse failed, or did not.
TimeoutParsed(parsed, summary) ==
    [wire |-> DurationPb(parsed),
     diags |-> IF parsed.ok THEN <<>> ELSE <<Diag("error", summary)>>]

\* One optional timeout of convertToScheduleAction, the diagnostic dropped.
TimeoutFieldSilent(timeout, summary) ==
    IF timeout.null THEN [wire |-> Nil, diags |-> <<>>]
    ELSE [wire |-> TimeoutParsed(ParseDuration(timeout.value), summary).wire,
          diags |-> <<>>]

\* One optional timeout of convertToScheduleAction: a timeout that does not
\* parse adds an error and still sets the wire field (to zero).
TimeoutField(timeout, summary) ==
    IF timeout.null THEN [wire |-> Nil, diags |-> <<>>]
    ELSE TimeoutParsed(ParseDuration(timeout.value), summary)

\* The action when the first timeout that does not parse ends the
\* conversion.
ScheduleActionFirstError(execution, run, task) ==
    [action |-> [WorkflowExecutionTimeout |-> execution.wire,
                 WorkflowRunTimeout |-> IF execution.diags = <<>> THEN run.wire ELSE Nil,
                 WorkflowTaskTimeout |-> IF execution.diags \o run.diags = <<>>
                                         THEN task.wire ELSE Nil],
     diags |-> IF execution.diags # <<>> THEN execution.diags
               ELSE IF run.diags # <<>> THEN run.diags
               ELSE task.diags]

\* The WorkflowExecution timeouts of the action and the diagnostics added.
ScheduleAction(execution, run, task) ==
    [action |-> [WorkflowExecutionTimeout |-> execution.wire,
                 WorkflowRunTimeout |-> run.wire,
                 WorkflowTaskTimeout |-> task.wire],
     diags |-> execution.diags \o run.diags \o task.diags]

convertToScheduleAction(workflow) ==
    ScheduleAction(TimeoutField(workflow.execution_timeout, "Invalid Execution Timeout"),
                   TimeoutField(workflow.run_timeout, "Invalid Run Timeout"),
                   TimeoutField(workflow.task_timeout, "Invalid Task Timeout"))

\* A field of convertToScheduleSpec after its parse: set only when parsed.
FieldParsed(parsed, wire, summary) ==
    IF parsed.ok THEN [wire |-> wire, diags |-> <<>>]
    ELSE [wire |-> Nil, diags |-> <<Diag("error", summary)>>]

DurationParsed(parsed, summary) == FieldParsed(parsed, DurationPb(parsed), summary)

\* An optional duration of convertToScheduleSpec.
DurationField(str, summary) ==
    IF str.null THEN [wire |-> Nil, diags |-> <<>>]
    ELSE DurationParsed(ParseDuration(str.value), summary)

TimeParsed(parsed, summary) == FieldParsed(parsed, parsed, summary)

\* An optional time of convertToScheduleSpec.
TimeField(str, summary) ==
    IF str.null THEN [wire |-> Nil, diags |-> <<>>]
    ELSE TimeParsed(ParseRFC3339(str.value), summary)

\* One pass of the loop over specModel.Intervals.
AppendInterval(done, every, offset) ==
    [wire |-> Append(done.wire, [Interval |-> every.wire, Phase |-> offset.wire]),
     diags |-> done.diags \o every.diags \o offset.diags]

\* The loop over specModel.Intervals, from the i-th on.
RECURSIVE ConvertIntervals(_, _, _)
ConvertIntervals(intervals, i, done) ==
    IF i > Len(intervals) THEN done
    ELSE ConvertIntervals(intervals, i + 1,
             AppendInterval(done,
                 DurationField(intervals[i].every, "Invalid Interval Duration"),
                 DurationField(intervals[i].offset, "Invalid Interval Offset")))

\* The ScheduleSpec built and the diagnostics added, in the order of the code.
ScheduleSpec(intervals, startTime, endTime, jitter) ==
    [spec |-> [Interval |-> intervals.wire, StartTime |-> startTime.wire,
               EndTime |-> endTime.wire, Jitter |-> jitter.wire],
     diags |-> intervals.diags \o startTime.diags \o endTime.diags \o jitter.diags]

convertToScheduleSpec(specModel) ==
    ScheduleSpec(ConvertIntervals(specModel.intervals, 1, [wire |-> <<>>, diags |-> <<>>]),
                 TimeField(specModel.start_time, "Invalid Start Time"),
                 TimeField(specModel.end_time, "Invalid End Time"),
                 DurationField(specModel.jitter, "Invalid Jitter"))

\* The table ScheduleOverlapPolicy.
OverlapNames == {"Skip", "BufferOne", "BufferAll", "CancelOther", "TerminateOther", "AllowAll"}

ScheduleOverlapPolicy(name) ==
    CASE name = "Skip" -> "SCHEDULE_OVERLAP_POLICY_SKIP"
      [] name = "BufferOne" -> "SCHEDULE_OVERLAP_POLICY_BUFFER_ONE"
      [] name = "BufferAll" -> "SCHEDULE_OVERLAP_POLICY_BUFFER_ALL"
      [] name = "CancelOther" -> "SCHEDULE_OVERLAP_POLICY_CANCEL_OTHER"
      [] name = "TerminateOther" -> "SCHEDULE_OVERLAP_POLICY_TERMINATE_OTHER"
      [] name = "AllowAll" -> "SCHEDULE_OVERLAP_POLICY_ALLOW_ALL"
      [] OTHER -> "SCHEDULE_OVERLAP_POLICY_UNSPECIFIED"

\* The end of convertToSchedulePolicy, after time.ParseDuration.
CatchupParsed(policyModel, parsed) ==
    IF ~parsed.ok
    THEN [policies |-> Nil, diags |-> <<Diag("error", "Invalid Catchup Window")>>]
    ELSE [policies |-> [nil |-> FALSE,
                        OverlapPolicy |-> ScheduleOverlapPolicy(policyModel.overlap),
                        CatchupWindow |-> DurationPb(parsed),
                        PauseOnFailure |-> policyModel.pause_on_failure],
          diags |-> <<>>]

\* convertToSchedulePolicy without the test of the lookup.
ConvertToSchedulePolicyUnchecked(policyModel) ==
    CatchupParsed(policyModel, ParseDuration(policyModel.catchup_window.value))

convertToSchedulePolicy(policyModel) ==
    IF policyModel.overlap \notin OverlapNames
    THEN [policies |-> Nil, diags |-> <<Diag("error", "Invalid Overlap Policy")>>]
    ELSE CatchupParsed(policyModel, ParseDuration(policyModel.catchup_window.value))

\* The validator of policy_config.overlap_policy (stringvalidator.OneOf),
\* which the framework runs on the configuration before the handler.
ValidateConfig(plan) ==
    IF plan.policy.overlap \in OverlapNames THEN <<>>
    ELSE <<Diag("error", "Invalid Attribute Value Match")>>

(***************************************************************************)
(* The schedule resource: the memo read back (convertMemo).                *)
(***************************************************************************)
MemoKeys == {"k1", "k2"}

\* The bytes of a payload: JSON strings, null, a number, nothing, and a
\* string that is not closed.
PayloadData ==
    {<<"\"", "a", "\"">>, <<"\"", "\"">>, <<"n", "u", "l", "l">>, <<"1">>, <<>>,
     <<"\"", "a">>}

\* json.Unmarshal(data, &value) for a string value: a JSON string sets the
\* value, null leaves it alone, anything else is an error.
JsonUnmarshalString(data) ==
    IF data = <<"n", "u", "l", "l">> THEN [ok |-> TRUE, value |-> <<>>]
    ELSE IF /\ Len(data) >= 2
            /\ data[1] = "\"" /\ data[Len(data)] = "\""
            /\ \A i \in 2..(Len(data) - 1) : data[i] \notin {"\"", "\\"}
    THEN [ok |-> TRUE, value |-> SubSeq(data, 2, Len(data) - 1)]
    ELSE [ok |-> FALSE, value |-> <<>>]

NilMemo == [nil |-> TRUE, Fields |-> <<>>]

\* The memos of at most MaxMemoKeys fields a DescribeSchedule response holds.
Memos ==
    {NilMemo} \cup
    {[nil |-> FALSE, Fields |-> f] :
        f \in UNION {[keys -> PayloadData] :
                        keys \in {K \in SUBSET MemoKeys : Cardinality(K) <= MaxMemoKeys}}}

\* The orders in which range can visit the keys.
Orders(keys) ==
    {order \in [1..Cardinality(keys) -> keys] :
        \A i, j \in 1..Cardinality(keys) : order[i] = order[j] => i = j}

\* basetypes.MapValue{}: the null map.
NullMap == [null |-> TRUE, elements |-> <<>>]

\* data[key] = value.
MapPut(data, key, value) ==
    [k \in DOMAIN data \cup {key} |-> IF k = key THEN value ELSE data[k]]

\* One pass of the loop of convertMemo: the error is added and the value,
\* empty after an error, is stored all the same.
UnmarshalField(done, key, decoded) ==
    [data |-> MapPut(done.data, key, decoded.value),
     diags |-> IF decoded.ok THEN done.diags
               ELSE Append(done.diags, Diag("error", "Failed to unmarshal payload"))]

\* The loop of convertMemo over memo.Fields, from the i-th key of order on.
RECURSIVE UnmarshalFields(_, _, _, _)
UnmarshalFields(fields, order, i, done) ==
    IF i > Len(order) THEN done
    ELSE UnmarshalFields(fields, order, i + 1,
             UnmarshalField(done, order[i], JsonUnmarshalString(fields[order[i]])))

\* types.MapValueFrom(ctx, types.StringType, data): never fails on a
\* map[string]string.
MapValueFrom(data) == [result |-> [null |-> FALSE, elements |-> data], diags |-> <<>>]

\* The end of convertMemo: result and diags are both assigned by
\* MapValueFrom, so what the loop added to diags is gone.
MemoResult(loop, made) ==
    IF HasError(made.diags) THEN [result |-> NullMap, diags |-> made.diags]
    ELSE [result |-> made.result, diags |-> made.diags]

MemoConverted(loop) == MemoResult(loop, MapValueFrom(loop.data))

convertMemo(memo, order) ==
    IF memo.nil \/ DOMAIN memo.Fields = {} THEN [result |-> NullMap, diags |-> <<>>]
    ELSE MemoConverted(UnmarshalFields(memo.Fields, order, 1,
                                       [data |-> <<>>, diags |-> <<>>]))

NoMemoRet == [result |-> NullMap, diags |-> <<>>]

(***************************************************************************)
(* The schedule resource: Create and Update.                               *)
(***************************************************************************)
\* The attributes of a plan that the conversions read, one field each.
DefaultFields ==
    [hasInterval |-> TRUE, every |-> Str(Dur1h), offset |-> NullStr,
     start_time |-> NullStr, end_time |-> NullStr, jitter |-> NullStr,
     execution_timeout |-> NullStr, run_timeout |-> NullStr, task_timeout |-> NullStr,
     overlap |-> "Skip", catchup_window |-> Str(Dur5m), pause_on_failure |-> FALSE]

FieldNames == DOMAIN DefaultFields

DurationValues ==
    {Str(Dur1h), Str(Dur30s), Str(Dur10s), Str(Dur2d), Str(DurAbc), Str(Dur48h)}

TimeValues == {Str(TimeUtc), Str(TimeZoned), Str(TimeBadMonth), Str(TimeDateOnly)}

OverlapValues == OverlapNames \cup {"Invalid", "skip", ""}

\* The values a configuration can give a field: the required and the
\* defaulted ones are never null.
FieldValues(k) ==
    CASE k \in {"hasInterval", "pause_on_failure"} -> BOOLEAN
      [] k = "every" -> DurationValues
      [] k = "catchup_window" -> DurationValues \cup {Str(Dur5m)}
      [] k \in {"start_time", "end_time"} -> TimeValues \cup {NullStr}
      [] k = "overlap" -> OverlapValues
      [] OTHER -> DurationValues \cup {NullStr}

\* The configurations that differ from the default one in at most n fields.
RECURSIVE FieldsChanged(_)
FieldsChanged(n) ==
    IF n = 0 THEN {DefaultFields}
    ELSE LET less == FieldsChanged(n - 1)
         IN  less \cup UNION {{[f EXCEPT ![k] = v] : v \in FieldValues(k)} :
                                  <<f, k>> \in less \X FieldNames}

\* ScheduleResourceModel, as far as Create and Update read it.
ScheduleResourceModel(f) ==
    [spec |-> [intervals |-> IF f.hasInterval
                             THEN <<[every |-> f.every, offset |-> f.offset]>>
                             ELSE <<>>,
               start_time |-> f.start_time, end_time |-> f.end_time,
               jitter |-> f.jitter],
     workflow |-> [execution_timeout |-> f.execution_timeout,
                   run_timeout |-> f.run_timeout,
                   task_timeout |-> f.task_timeout],
     policy |-> [overlap |-> f.overlap, catchup_window |-> f.catchup_window,
                 pause_on_failure |-> f.pause_on_failure]]

SchedPlans == {ScheduleResourceModel(f) : f \in FieldsChanged(MaxChanged)}

NoSchedule == [exists |-> FALSE]

ScheduleState(data) == [exists |-> TRUE, data |-> data]

NoRequest == [nil |-> TRUE]

ScheduleRequest(spec, action, policies) ==
    [nil |-> FALSE, Spec |-> spec, Action |-> action, Policies |-> policies]

\* The answers of CreateSchedule and of UpdateSchedule.
CreateScheduleAnswers == {NilError, GrpcError("AlreadyExists"), GrpcError("Unavailable")}

UpdateScheduleAnswers == {NilError, GrpcError("NotFound"), GrpcError("Unavailable")}

\* What a handler leaves behind: diagnostics, calls, request and state.
Outcome(diags, calls, request, state) ==
    [diags |-> diags, calls |-> calls, request |-> request, state |-> state]

\* Create when the schedule is stored whatever CreateSchedule answered.
CreateConvertedStoring(data, prior, uuidErr, answer, spec, action, policy) ==
    IF HasError(spec.diags \o action.diags \o policy.diags) \/ uuidErr
    THEN Outcome(<<Diag("error", "Request error")>>, <<>>, NoRequest, prior)
    ELSE Outcome(IF answer.goType # "nil" THEN <<Diag("error", "Request error")>>
                 ELSE <<>>,
                 <<"CreateSchedule">>,
                 ScheduleRequest(spec.spec, action.action, policy.policies),
                 ScheduleState(data))

\* ScheduleResource.Create from its first conversion on: spec, action and
\* policy are what the three conversions return, uuidErr is the error of
\* uuid.GenerateUUID, answer the error of CreateSchedule.
CreateConverted(data, prior, uuidErr, answer, spec, action, policy) ==
    IF HasError(spec.diags) THEN Outcome(spec.diags, <<>>, NoRequest, prior)
    ELSE IF HasError(spec.diags \o action.diags)
    THEN Outcome(spec.diags \o action.diags, <<>>, NoRequest, prior)
    ELSE IF uuidErr
    THEN Outcome(<<Diag("error", "UUID Generation Error")>>, <<>>, NoRequest, prior)
    ELSE IF HasError(policy.diags) THEN Outcome(policy.diags, <<>>, NoRequest, prior)
    ELSE IF answer.goType # "nil"
    THEN Outcome(<<Diag("error", IF IsAlreadyExists(answer)
                                 THEN "Schedule Already Exists"
                                 ELSE "Request error")>>,
                 <<"CreateSchedule">>,
                 ScheduleRequest(spec.spec, action.action, policy.policies), prior)
    ELSE Outcome(<<>>, <<"CreateSchedule">>,
                 ScheduleRequest(spec.spec, action.action, policy.policies),
                 ScheduleState(data))

\* ScheduleResource.Create, after the validators of the schema.
Create(data, prior, uuidErr, answer) ==
    IF HasError(ValidateConfig(data))
    THEN Outcome(ValidateConfig(data), <<>>, NoRequest, prior)
    ELSE CreateConverted(data, prior, uuidErr, answer,
                         convertToScheduleSpec(data.spec),
                         convertToScheduleAction(data.workflow),
                         convertToSchedulePolicy(data.policy))

\* ScheduleResource.Update from its first conversion on.
UpdateConverted(data, prior, uuidErr, answer, spec, action, policy) ==
    IF HasError(spec.diags) THEN Outcome(spec.diags, <<>>, NoRequest, prior)
    ELSE IF HasError(spec.diags \o action.diags)
    THEN Outcome(spec.diags \o action.diags, <<>>, NoRequest, prior)
    ELSE IF uuidErr
    THEN Outcome(<<Diag("error", "UUID Generation Error")>>, <<>>, NoRequest, prior)
    ELSE IF HasError(policy.diags) THEN Outcome(policy.diags, <<>>, NoRequest, prior)
    ELSE IF answer.goType # "nil"
    THEN Outcome(<<Diag("error", "Error Updating Schedule")>>,
                 <<"UpdateSchedule">>,
                 ScheduleRequest(spec.spec, action.action, policy.policies), prior)
    ELSE Outcome(<<>>, <<"UpdateSchedule">>,
                 ScheduleRequest(spec.spec, action.action, policy.policies),
                 ScheduleState(data))

\* ScheduleResource.Update, after the validators of the schema.
Update(data, prior, uuidErr, answer) ==
    IF HasError(ValidateConfig(data))
    THEN Outcome(ValidateConfig(data), <<>>, NoRequest, prior)
    ELSE UpdateConverted(data, prior, uuidErr, answer,
                         convertToScheduleSpec(data.spec),
                         convertToScheduleAction(data.workflow),
                         convertToSchedulePolicy(data.policy))

PolicyModels ==
    [overlap : OverlapValues, catchup_window : DurationValues \cup {Str(Dur5m)},
     pause_on_failure : BOOLEAN]

NoPolicyModel == [nil |-> TRUE]

NoPolicyRet == [policies |-> Nil, diags |-> <<>>]

SchedIdle ==
    /\ schedOp = "idle"
    /\ schedPlan = NoRequest
    /\ schedState = NoSchedule
    /\ schedDiags = <<>>
    /\ schedCalls = <<>>
    /\ schedRequest = NoRequest
    /\ polArg = NoPolicyModel
    /\ polRet = NoPolicyRet
    /\ memoArg = NilMemo
    /\ memoRet = NoMemoRet

\* Before the run the schedule is not in the state (Create applies), or it
\* is, with the default configuration (Update applies).
SchedInit ==
    /\ schedOp = "idle"
    /\ schedPlan = NoRequest
    /\ schedState \in {NoSchedule, ScheduleState(ScheduleResourceModel(DefaultFields))}
    /\ schedDiags = <<>>
    /\ schedCalls = <<>>
    /\ schedRequest = NoRequest
    /\ polArg = NoPolicyModel
    /\ polRet = NoPolicyRet
    /\ memoArg = NilMemo
    /\ memoRet = NoMemoRet

\* The response of a handler and the calls it made, recorded.
Respond(out) ==
    /\ schedDiags' = out.diags
    /\ schedCalls' = out.calls
    /\ schedRequest' = out.request
    /\ schedState' = out.state

SchedCreate ==
    /\ UNCHANGED exceptSched
    /\ schedOp = "idle"
    /\ ~schedState.exists
    /\ \E data \in SchedPlans, uuidErr \in BOOLEAN, answer \in CreateScheduleAnswers :
          /\ schedOp' = "Create"
          /\ schedPlan' = data
          /\ Respond(Create(data, schedState, uuidErr, answer))
    /\ UNCHANGED <<polArg, polRet, memoArg, memoRet>>

SchedUpdate ==
    /\ UNCHANGED exceptSched
    /\ schedOp = "idle"
    /\ schedState.exists
    /\ \E data \in SchedPlans, uuidErr \in BOOLEAN, answer \in UpdateScheduleAnswers :
          /\ schedOp' = "Update"
          /\ schedPlan' = data
          /\ Respond(Update(data, schedState, uuidErr, answer))
    /\ UNCHANGED <<polArg, polRet, memoArg, memoRet>>

\* convertToSchedulePolicy on its own.
ConvertToSchedulePolicy ==
    /\ UNCHANGED exceptSched
    /\ schedOp = "idle"
    /\ \E policyModel \in PolicyModels :
          /\ schedOp' = "convertToSchedulePolicy"
          /\ polArg' = policyModel
          /\ polRet' = convertToSchedulePolicy(policyModel)
    /\ UNCHANGED <<schedPlan, schedState, schedDiags, schedCalls, schedRequest,
                   memoArg, memoRet>>

\* convertMemo on its own; order is the order in which range visits the map.
ConvertMemo ==
    /\ UNCHANGED exceptSched
    /\ schedOp = "idle"
    /\ \E memo \in Memos :
          \E order \in Orders(IF memo.nil THEN {} ELSE DOMAIN memo.Fields) :
             /\ schedOp' = "convertMemo"
             /\ memoArg' = memo
             /\ memoRet' = convertMemo(memo, order)
    /\ UNCHANGED <<schedPlan, schedState, schedDiags, schedCalls, schedRequest,
                   polArg, polRet>>

SchedNext == SchedCreate \/ SchedUpdate \/ ConvertToSchedulePolicy \/ ConvertMemo

(***************************************************************************)
(* The provider (TemporalProvider.Configure): connection settings from the *)
(* configuration and the environment.                                      *)
(***************************************************************************)
\* A value of the configuration: null, unknown, or known.
CfgNull == [null |-> TRUE, unknown |-> FALSE, value |-> ""]

CfgUnknown == [null |-> FALSE, unknown |-> TRUE, value |-> ""]

CfgString(v) == [null |-> FALSE, unknown |-> FALSE, value |-> v]

CfgBoolNull == [null |-> TRUE, unknown |-> FALSE, value |-> FALSE]

CfgBoolUnknown == [null |-> FALSE, unknown |-> TRUE, value |-> FALSE]

CfgBool(b) == [null |-> FALSE, unknown |-> FALSE, value |-> b]

\* A variable of the environment: unset, or set to a string.
EnvUnset == [set |-> FALSE, value |-> ""]

EnvSet(v) == [set |-> TRUE, value |-> v]

\* os.Getenv: the empty string for a variable that is not set.
Getenv(var) == IF var.set THEN var.value ELSE ""

\* strconv.ParseBool.
ParseBool(str) ==
    IF str \in {"1", "t", "T", "TRUE", "true", "True"} THEN [ok |-> TRUE, value |-> TRUE]
    ELSE IF str \in {"0", "f", "F", "FALSE", "false", "False"}
    THEN [ok |-> TRUE, value |-> FALSE]
    ELSE [ok |-> FALSE, value |-> FALSE]

\* getBoolEnv: false without error for a variable that is not set.
getBoolEnv(var) ==
    IF ~var.set THEN [ok |-> TRUE, value |-> FALSE]
    ELSE ParseBool(var.value)

\* A setting that stays what the environment says.
OverrideIgnored(fromEnv, cfg) == fromEnv

\* if !config.X.IsNull() { x = config.X.Value...() }
Override(fromEnv, cfg) == IF ~cfg.null THEN cfg.value ELSE fromEnv

\* if x == "" { x = default }
OrDefault(value, default) == IF value = "" THEN default ELSE value

StringSettings == {"host", "port", "token_url", "client_id", "client_secret", "audience"}

SettingNames == StringSettings \cup {"insecure"}

\* Nothing configured and nothing in the environment.
NoSettings ==
    [config |-> [k \in SettingNames |-> IF k = "insecure" THEN CfgBoolNull ELSE CfgNull],
     env |-> [k \in SettingNames |-> EnvUnset]]

ConfigValues(k) ==
    IF k = "insecure" THEN {CfgBoolNull, CfgBoolUnknown, CfgBool(TRUE), CfgBool(FALSE)}
    ELSE {CfgNull, CfgUnknown, CfgString(""), CfgString("cfg")}

EnvValues(k) ==
    IF k = "insecure"
    THEN {EnvUnset, EnvSet("true"), EnvSet("0"), EnvSet("yes"), EnvSet("")}
    ELSE {EnvUnset, EnvSet(""), EnvSet("env")}

\* The settings that differ from NoSettings in at most n places.
RECURSIVE SettingsChanged(_)
SettingsChanged(n) ==
    IF n = 0 THEN {NoSettings}
    ELSE UNION {{t} \cup {[t EXCEPT !.config[k] = v] : v \in ConfigValues(k)}
                    \cup {[t EXCEPT !.env[k] = v] : v \in EnvValues(k)} :
                  <<t, k>> \in SettingsChanged(n - 1) \X SettingNames}

NoClient == [nil |-> TRUE]

\* PEM text: "pem" decodes and parses, anything else does not.
PemParses(text) == text = "pem"

\* grpcInsec.NewCredentials(): no transport security.
InsecureCredentials ==
    [transport |-> "insecure", cert |-> "", key |-> "", ca |-> "", serverName |-> ""]

\* grpcCreds.NewTLS(config): TLS with the certificate, roots and server
\* name of the config; the empty config has none.
TLSCredentials(cert, key, ca, serverName) ==
    [transport |-> "tls", cert |-> cert, key |-> key, ca |-> ca, serverName |-> serverName]

\* The first part of CreateGRPCClient: the transport credentials, or the
\* error of getCertificate or getPrivateKey.
TransportCredentials(insecure, useTLS, certString, keyString, caCerts, serverName) ==
    IF insecure THEN [err |-> FALSE, credentials |-> InsecureCredentials]
    ELSE IF ~useTLS THEN [err |-> FALSE, credentials |-> TLSCredentials("", "", "", "")]
    ELSE IF ~PemParses(certString) \/ ~PemParses(keyString)
    THEN [err |-> TRUE, credentials |-> InsecureCredentials]
    ELSE [err |-> FALSE,
          credentials |-> TLSCredentials(certString, keyString, caCerts, serverName)]

\* The second part of CreateGRPCClient: with a client id a token is
\* fetched first (GetToken), and that or the dial can fail.
ClientWith(clientID, clientSecret, tokenURL, audience, endpoint, insecure, credentials) ==
    {[err |-> TRUE, client |-> NoClient],
     [err |-> FALSE,
      client |-> [nil |-> FALSE, endpoint |-> endpoint, insecure |-> insecure,
                  authenticated |-> clientID # "",
                  clientID |-> clientID, clientSecret |-> clientSecret,
                  tokenURL |-> tokenURL, audience |-> audience,
                  credentials |-> credentials]]}

\* CreateGRPCClient once the credentials are made.
ClientFor(clientID, clientSecret, tokenURL, audience, endpoint, insecure, made) ==
    IF made.err THEN {[err |-> TRUE, client |-> NoClient]}
    ELSE ClientWith(clientID, clientSecret, tokenURL, audience, endpoint, insecure,
                    made.credentials)

CreateGRPCClient(clientID, clientSecret, tokenURL, audience, endpoint, insecure, useTLS, certString, keyString, caCerts, serverName) ==
    ClientFor(clientID, clientSecret, tokenURL, audience, endpoint, insecure,
              TransportCredentials(insecure, useTLS, certString, keyString, caCerts,
                                   serverName))

\* The order of the checks for unknown values, and the summary of each.
UnknownChecks ==
    <<"host", "port", "client_id", "client_secret", "token_url", "audience", "insecure">>

UnknownSummary(k) ==
    CASE k = "host" -> "Unknown Tmeporal Frontend Host"
      [] k = "port" -> "Unknown Temporal Frontend Port"
      [] k = "client_id" -> "Unknown Temporal Client ID"
      [] k = "client_secret" -> "Unknown Temporal Client Secret"
      [] k = "token_url" -> "Unknown Oauth2 Token URL"
      [] k = "audience" -> "Unknown Audience"
      [] OTHER -> "Unknown Insecure"

\* The diagnostics of the checks for unknown values: one per unknown value.
RECURSIVE UnknownFrom(_, _, _)
UnknownFrom(config, i, done) ==
    IF i > Len(UnknownChecks) THEN done
    ELSE UnknownFrom(config, i + 1,
                     IF config[UnknownChecks[i]].unknown
                     THEN Append(done, Diag("error", UnknownSummary(UnknownChecks[i])))
                     ELSE done)

UnknownDiags(config) == UnknownFrom(config, 1, <<>>)

\* strings.Join([]string{host, port}, ":")
Endpoint(host, port) == <<host, ":", port>>

\* Configure from the overrides on: made is what CreateGRPCClient returns.
ConfigureClient(made) ==
    IF made.err
    THEN [diags |-> <<Diag("error", "Unable to Create Temporal API Client")>>,
          client |-> NoClient]
    ELSE [diags |-> <<>>, client |-> made.client]

\* The arguments Configure hands to CreateGRPCClient.
Resolved(config, env, insecure) ==
    [clientID |-> Override(Getenv(env["client_id"]), config["client_id"]),
     clientSecret |-> Override(Getenv(env["client_secret"]), config["client_secret"]),
     tokenURL |-> Override(Getenv(env["token_url"]), config["token_url"]),
     audience |-> OrDefault(Override(Getenv(env["audience"]), config["audience"]),
                            "openid,profile,email"),
     endpoint |-> Endpoint(OrDefault(Override(Getenv(env["host"]), config["host"]),
                                     "127.0.0.1"),
                           OrDefault(Override(Getenv(env["port"]), config["port"]), "7233")),
     insecure |-> Override(insecure.value, config["insecure"])]

\* The answers of CreateGRPCClient for resolved arguments, the
\* configuration having no tls block.
Dial(args) ==
    CreateGRPCClient(args.clientID, args.clientSecret, args.tokenURL, args.audience,
                     args.endpoint, args.insecure, FALSE, "", "", "", "")

ProvIdle ==
    /\ provOp = "idle"
    /\ provConfig = NoSettings.config
    /\ provEnv = NoSettings.env
    /\ provDiags = <<>>
    /\ provClient = NoClient

ProvInit == ProvIdle

\* TemporalProvider.Configure.
Configure ==
    /\ UNCHANGED exceptProv
    /\ provOp = "idle"
    /\ \E t \in SettingsChanged(MaxSettings) :
          /\ provOp' = "Configure"
          /\ provConfig' = t.config
          /\ provEnv' = t.env
          /\ IF HasError(UnknownDiags(t.config))
             THEN provDiags' = UnknownDiags(t.config) /\ provClient' = NoClient
             ELSE IF ~getBoolEnv(t.env["insecure"]).ok
             THEN /\ provDiags' = <<Diag("error", "Unknown Insecure")>>
                  /\ provClient' = NoClient
             ELSE \E made \in Dial(Resolved(t.config, t.env, getBoolEnv(t.env["insecure"]))) :
                     /\ provDiags' = ConfigureClient(made).diags
                     /\ provClient' = ConfigureClient(made).client

ProvNext == Configure

(***************************************************************************)
(* The search attribute data source (SearchAttributeDataSource).           *)
(***************************************************************************)
\* The attributes of the schema that are Required.
RequiredAttributes == {"name", "namespace"}

\* The data blocks: each attribute given or left out.
DataSourceConfigs ==
    [name : {NullStr, Str(<<"a">>), Str(<<"b">>)},
     namespace : {NullStr, Str(StrDefault), Str(<<"a">>)}]

NoDataSourceState == [set |-> FALSE, name |-> <<>>, type |-> "", namespace |-> <<>>]

\* A required attribute without a value: the configuration is rejected, and
\* GetAttribute would not convert a null to a Go string either.
MissingRequired(config) == \E k \in RequiredAttributes : config[k].null

\* Read after the list call: custom attributes first, then system ones.
DataSourceFound(resp, name, namespace) ==
    IF resp.failed
    THEN [diags |-> <<Diag("error", "API Client Error")>>, state |-> NoDataSourceState]
    ELSE IF MapGet(resp.custom, name).found
    THEN [diags |-> <<>>,
          state |-> [set |-> TRUE, name |-> name,
                     type |-> MapGet(resp.custom, name).value, namespace |-> namespace]]
    ELSE IF MapGet(resp.system, name).found
    THEN [diags |-> <<>>,
          state |-> [set |-> TRUE, name |-> name,
                     type |-> MapGet(resp.system, name).value, namespace |-> namespace]]
    ELSE [diags |-> <<Diag("error", "Not Found")>>, state |-> NoDataSourceState]

DsIdle ==
    /\ dsOp = "idle"
    /\ dsConfig = [name |-> NullStr, namespace |-> NullStr]
    /\ dsCalls = <<>>
    /\ dsResp = NoListAnswer
    /\ dsDiags = <<>>
    /\ dsState = NoDataSourceState

DsInit == DsIdle

\* SearchAttributeDataSource.Read, with the validation of the data block
\* against the schema that comes before it.
SADataSourceRead ==
    /\ UNCHANGED exceptDs
    /\ dsOp = "idle"
    /\ \E config \in DataSourceConfigs, resp \in ListAnswers :
          /\ dsOp' = "Read"
          /\ dsConfig' = config
          /\ IF MissingRequired(config)
             THEN /\ dsDiags' = <<Diag("error", "Missing required argument")>>
                  /\ dsCalls' = <<>>
                  /\ dsResp' = NoListAnswer
                  /\ dsState' = NoDataSourceState
             ELSE /\ dsCalls' = <<[call |-> "ListSearchAttributes",
                                   namespace |-> config.namespace.value]>>
                  /\ dsResp' = resp
                  /\ dsDiags' = DataSourceFound(resp, config.name.value,
                                                config.namespace.value).diags
                  /\ dsState' = DataSourceFound(resp, config.name.value,
                                                config.namespace.value).state

LookupNext == SADataSourceRead \/ SAImportState

(***************************************************************************)
(* The retention of the namespace resource: days in the configuration, a   *)
(* duration on the wire.                                                   *)
(*                                                                         *)
(* A time.Duration is an int64 count of nanoseconds.  It is kept here as a *)
(* sign and a magnitude of days, seconds of the day and nanoseconds of the *)
(* second, each of which fits the integers of the checker; the seconds and *)
(* nanos of a durationpb.Duration are the same digits.                     *)
(***************************************************************************)
Magnitude(days, secs, nanos) == [days |-> days, secs |-> secs, nanos |-> nanos]

\* 2^63 and 2^64 nanoseconds.
TwoTo63 == Magnitude(106751, 85636, 854775808)

TwoTo64 == Magnitude(213503, 84873, 709551616)

MagLess(a, b) ==
    \/ a.days < b.days
    \/ a.days = b.days /\ a.secs < b.secs
    \/ a.days = b.days /\ a.secs = b.secs /\ a.nanos < b.nanos

\* a - b for a >= b, with the borrows.
MagSub(a, b) ==
    Magnitude(a.days - b.days - (IF a.secs - b.secs - (IF a.nanos < b.nanos THEN 1 ELSE 0) < 0
                                 THEN 1 ELSE 0),
              (a.secs - b.secs - (IF a.nanos < b.nanos THEN 1 ELSE 0)) % 86400,
              (a.nanos - b.nanos) % 1000000000)

GoDuration(neg, m) == [neg |-> neg, days |-> m.days, secs |-> m.secs, nanos |-> m.nanos]

\* The int64 a non-negative count of nanoseconds becomes: the count modulo
\* 2^64, negative from 2^63 on.
RECURSIVE WrapInt64(_)
WrapInt64(m) ==
    IF MagLess(m, TwoTo63) THEN GoDuration(FALSE, m)
    ELSE IF MagLess(m, TwoTo64) THEN GoDuration(TRUE, MagSub(TwoTo64, m))
    ELSE WrapInt64(MagSub(m, TwoTo64))

\* time.Duration(d) * day, for d >= 0.
Days(d) == WrapInt64(Magnitude(d, 0, 0))

\* durationpb.New: seconds = d / 1e9 and nanos = d % 1e9, of the sign of d.
DurationpbNew(d) ==
    [neg |-> d.neg, seconds |-> [days |-> d.days, secs |-> d.secs], nanos |-> d.nanos]

\* Duration.AsDuration, for a duration in the range of int64.
AsDuration(pb) ==
    [neg |-> pb.neg, days |-> pb.seconds.days, secs |-> pb.seconds.secs, nanos |-> pb.nanos]

\* The retention sent by Create and Update.
RetentionToWire(d) == DurationpbNew(Days(d))

RECURSIVE Log2(_)
Log2(n) == IF n < 2 THEN 0 ELSE 1 + Log2(n \div 2)

\* d / Hour, the whole hours of the magnitude.
WholeHours(d) == d.days * 24 + d.secs \div 3600

\* Duration.Hours is float64(hour) + float64(nsec)/(60*60*1e9).  The sum has
\* 53 bits: it is the next whole hour when the nanoseconds missing to that
\* hour are fewer than half a unit in the last place of the hour count,
\* 3.6e12 / 2^(53-e) = 439453125 / 2^(40-e) nanoseconds for an hour count of
\* 2^e to 2^(e+1), which is below one nanosecond for fewer than 4096 hours.
HoursRoundUp(d) ==
    /\ d.secs % 3600 = 3599
    /\ WholeHours(d) >= 4096
    /\ 1000000000 - d.nanos <= 439453125 \div 2^(40 - Log2(WholeHours(d)))

\* The hours below the fraction of Duration.Hours().
HoursFloat(d) == IF HoursRoundUp(d) THEN WholeHours(d) + 1 ELSE WholeHours(d)

\* int64(ttl.AsDuration().Hours() / 24): the conversion truncates toward zero.
RetentionFromWire(pb) ==
    IF pb.neg THEN 0 - (HoursFloat(AsDuration(pb)) \div 24)
    ELSE HoursFloat(AsDuration(pb)) \div 24

\* The retentions of a plan: a few days, and the days around 2^63 and 2^64
\* nanoseconds.
RetentionDays ==
    (0..MaxRetention) \cup {TwoTo63.days, TwoTo63.days + 1, TwoTo64.days + 1}

\* The retentions another client can give the namespace.
BackendTtls ==
    {DurationpbNew(GoDuration(FALSE, Magnitude(days, secs, nanos))) :
        days \in (0..MaxRetention) \cup {170},
        secs \in {0, 1, 86399},
        nanos \in {0, 1, 999999999}}

NoTtl == [set |-> FALSE, ttl |-> DurationpbNew(Days(0))]

Ttl(pb) == [set |-> TRUE, ttl |-> pb]

NoRetention == [null |-> TRUE, days |-> 0]

RetentionState(days) == [null |-> FALSE, days |-> days]

RetIdle ==
    /\ retOp = "idle"
    /\ retPlan = 0
    /\ retTtl = NoTtl
    /\ retWriter = "none"
    /\ retState = NoRetention

RetInit == RetIdle

\* Create: the retention of the plan goes to RegisterNamespace, which the
\* server accepts or refuses, and into the state as it is in the plan.
NsCreateRetention ==
    /\ UNCHANGED exceptRet
    /\ retState.null
    /\ ~retTtl.set
    /\ \E d \in RetentionDays, accepted \in BOOLEAN :
          /\ retOp' = "Create"
          /\ retPlan' = d
          /\ IF accepted
             THEN /\ retTtl' = Ttl(RetentionToWire(d))
                  /\ retWriter' = "Create"
                  /\ retState' = RetentionState(d)
             ELSE UNCHANGED <<retTtl, retWriter, retState>>

\* Read: the retention of DescribeNamespace goes into the state.
NsReadRetention ==
    /\ UNCHANGED exceptRet
    /\ ~retState.null
    /\ retTtl.set
    /\ retOp' = "Read"
    /\ retState' = RetentionState(RetentionFromWire(retTtl.ttl))
    /\ UNCHANGED <<retPlan, retTtl, retWriter>>

\* Update: as Create, with UpdateNamespace.
NsUpdateRetention ==
    /\ UNCHANGED exceptRet
    /\ ~retState.null
    /\ retTtl.set
    /\ \E d \in RetentionDays, accepted \in BOOLEAN :
          /\ retOp' = "Update"
          /\ retPlan' = d
          /\ IF accepted
             THEN /\ retTtl' = Ttl(RetentionToWire(d))
                  /\ retWriter' = "Update"
                  /\ retState' = RetentionState(d)
             ELSE UNCHANGED <<retTtl, retWriter, retState>>

\* Another client changes the retention of the namespace.
NsRetentionElsewhere ==
    /\ UNCHANGED exceptRet
    /\ retTtl.set
    /\ \E pb \in BackendTtls : retTtl' = Ttl(pb)
    /\ retWriter' = "elsewhere"
    /\ UNCHANGED <<retOp, retPlan, retState>>

RetNext ==
    \/ NsCreateRetention
    \/ NsReadRetention
    \/ NsUpdateRetention
    \/ NsRetentionElsewhere

(***************************************************************************)
(* Handlers of one resource object running concurrently (ScheduleResource): *)
(* what they share is the field r.client and the package-level variables.  *)
(***************************************************************************)
Handlers == {1, 2}

\* The package-level map as the package initialises it.
OverlapPolicyMap == [name \in OverlapNames |-> ScheduleOverlapPolicy(name)]

ConcPlans ==
    {ScheduleResourceModel(DefaultFields),
     ScheduleResourceModel([DefaultFields EXCEPT !.overlap = "AllowAll"]),
     ScheduleResourceModel([DefaultFields EXCEPT !.catchup_window = Str(DurAbc)])}

ConcOps == {"Create", "Update", "Delete"}

NoOutcome == Outcome(<<>>, <<>>, NoRequest, NoSchedule)

\* A call through a client made from a nil connection panics.
Panic(prior) == Outcome(<<Diag("panic", "nil pointer dereference")>>, <<>>, NoRequest, prior)

\* The answer of the server to the remote call of a handler.
ScheduleAnswers(op, exists) ==
    CASE op = "Create" -> IF exists THEN {GrpcError("AlreadyExists")}
                          ELSE {NilError, GrpcError("Unavailable")}
      [] op = "Update" -> IF exists THEN {NilError, GrpcError("Unavailable")}
                          ELSE {GrpcError("NotFound")}
      [] OTHER -> IF exists THEN {NilError, GrpcError("Unavailable")}
                  ELSE {GrpcError("NotFound")}

\* The schedule on the server after the call.
ScheduleAfter(op, exists, answer) ==
    IF answer.goType # "nil" THEN exists ELSE op # "Delete"

\* convertToSchedulePolicy with the map the package holds at the time.
PolicyWith(map, policyModel) ==
    IF policyModel.overlap \notin DOMAIN map
    THEN [policies |-> Nil, diags |-> <<Diag("error", "Invalid Overlap Policy")>>]
    ELSE convertToSchedulePolicy(policyModel)

\* ScheduleResource.Delete.
Delete(prior, answer) ==
    IF answer.goType # "nil"
    THEN Outcome(<<Diag("error", "Error Deleting Schedule")>>, <<"DeleteSchedule">>,
                 NoRequest, prior)
    ELSE Outcome(<<>>, <<"DeleteSchedule">>, NoRequest, NoSchedule)

\* The handler op with the map and the client it found.
HandlerOutcome(op, data, prior, answer, map, client) ==
    IF client = "nil" THEN Panic(prior)
    ELSE CASE op = "Create" ->
                 CreateConverted(data, prior, FALSE, answer,
                                 convertToScheduleSpec(data.spec),
                                 convertToScheduleAction(data.workflow),
                                 PolicyWith(map, data.policy))
           [] op = "Update" ->
                 UpdateConverted(data, prior, FALSE, answer,
                                 convertToScheduleSpec(data.spec),
                                 convertToScheduleAction(data.workflow),
                                 PolicyWith(map, data.policy))
           [] OTHER -> Delete(prior, answer)

ConcIdle ==
    /\ rClient = "nil"
    /\ pkgOverlap = OverlapPolicyMap
    /\ cPc = [h \in Handlers |-> "idle"]
    /\ cOp = [h \in Handlers |-> "Create"]
    /\ cPlan = [h \in Handlers |-> ScheduleResourceModel(DefaultFields)]
    /\ cClient = [h \in Handlers |-> "nil"]
    /\ cAnswer = [h \in Handlers |-> NilError]
    /\ cOut = [h \in Handlers |-> NoOutcome]
    /\ cServer = [h \in Handlers |-> FALSE]
    /\ cState = [h \in Handlers |-> NoSchedule]

\* The schedules are on the server and in the state, or are not.
ConcInit ==
    /\ rClient = "nil"
    /\ pkgOverlap = OverlapPolicyMap
    /\ cPc = [h \in Handlers |-> "idle"]
    /\ cOp = [h \in Handlers |-> "Create"]
    /\ cPlan = [h \in Handlers |-> ScheduleResourceModel(DefaultFields)]
    /\ cClient = [h \in Handlers |-> "nil"]
    /\ cAnswer = [h \in Handlers |-> NilError]
    /\ cOut = [h \in Handlers |-> NoOutcome]
    /\ cServer \in [Handlers -> BOOLEAN]
    /\ cState \in [Handlers -> {NoSchedule, ScheduleState(ScheduleResourceModel(DefaultFields))}]

\* ScheduleResource.Configure, with the connection of the provider.
ResourceConfigure ==
    /\ UNCHANGED exceptConc
    /\ rClient = "nil"
    /\ rClient' = "conn"
    /\ UNCHANGED <<pkgOverlap, cPc, cOp, cPlan, cClient, cAnswer, cOut, cServer, cState>>

\* A handler that drops the connection of the resource when it ends.
HandlerCallClosing(h) ==
    /\ UNCHANGED exceptConc
    /\ cPc[h] = "running"
    /\ \E answer \in ScheduleAnswers(cOp[h], cServer[h]) :
          /\ cAnswer' = [cAnswer EXCEPT ![h] = answer]
          /\ cOut' = [cOut EXCEPT ![h] =
                HandlerOutcome(cOp[h], cPlan[h], cState[h], answer, pkgOverlap, rClient)]
          /\ cServer' = [cServer EXCEPT ![h] = ScheduleAfter(cOp[h], @, answer)]
    /\ cPc' = [cPc EXCEPT ![h] = "done"]
    /\ rClient' = "nil"
    /\ UNCHANGED <<pkgOverlap, cOp, cPlan, cClient, cState>>

\* A handler starts once the resource is configured: it decodes its request
\* and makes its client from r.client.
HandlerStart(h) ==
    /\ UNCHANGED exceptConc
    /\ rClient # "nil"
    /\ cPc[h] = "idle"
    /\ \E op \in ConcOps, data \in ConcPlans :
          /\ (op = "Create") = ~cState[h].exists
          /\ cOp' = [cOp EXCEPT ![h] = op]
          /\ cPlan' = [cPlan EXCEPT ![h] = data]
    /\ cClient' = [cClient EXCEPT ![h] = rClient]
    /\ cPc' = [cPc EXCEPT ![h] = "running"]
    /\ UNCHANGED <<rClient, pkgOverlap, cAnswer, cOut, cServer, cState>>

\* The rest of the handler: the conversions (which read the package-level
\* map), the remote call on its own schedule, the response.
HandlerCall(h) ==
    /\ UNCHANGED exceptConc
    /\ cPc[h] = "running"
    /\ \E answer \in ScheduleAnswers(cOp[h], cServer[h]) :
          /\ cAnswer' = [cAnswer EXCEPT ![h] = answer]
          /\ cOut' = [cOut EXCEPT ![h] =
                HandlerOutcome(cOp[h], cPlan[h], cState[h], answer, pkgOverlap, cClient[h])]
          /\ cServer' = [cServer EXCEPT ![h] = ScheduleAfter(cOp[h], @, answer)]
    /\ cPc' = [cPc EXCEPT ![h] = "done"]
    /\ UNCHANGED <<rClient, pkgOverlap, cOp, cPlan, cClient, cState>>

ConcNext ==
    \/ ResourceConfigure
    \/ \E h \in Handlers : HandlerStart(h)
    \/ \E h \in Handlers : HandlerCall(h)

(***************************************************************************)
(* The schedule resource: Read and the conversions from the wire           *)
(* (convertScheduleSpec, convertScheduleAction).                           *)
(***************************************************************************)
RECURSIVE Pow10(_)
Pow10(k) == IF k = 0 THEN 1 ELSE 10 * Pow10(k - 1)

\* The zone offset of a parsed time, in seconds east of UTC.
ZoneOffset(zone) ==
    IF zone = <<"Z">> THEN 0
    ELSE (IF zone[1] = "-" THEN -1 ELSE 1)
         * (DigitsVal(zone, 2, 3) * 3600 + DigitsVal(zone, 5, 6) * 60)

\* The fraction of a parsed time in nanoseconds: digits after the ninth
\* are dropped.
FracNanos(frac) ==
    IF Len(frac) > 9 THEN DigitsVal(frac, 1, 9)
    ELSE DigitsVal(frac, 1, Len(frac)) * Pow10(9 - Len(frac))

\* Days from 1970-01-01 to a date of the proleptic Gregorian calendar.
DaysFromCivil(year, month, day) ==
    LET y == IF month <= 2 THEN year - 1 ELSE year
        era == y \div 400
        yoe == y - era * 400
        doy == (153 * (IF month > 2 THEN month - 3 ELSE month + 9) + 2) \div 5 + day - 1
        doe == yoe * 365 + yoe \div 4 - yoe \div 100 + doy
    IN  era * 146097 + doe - 719468

\* The date of a number of days from 1970-01-01.
CivilFromDays(days) ==
    LET z == days + 719468
        era == z \div 146097
        doe == z - era * 146097
        yoe == (doe - doe \div 1460 + doe \div 36524 - doe \div 146096) \div 365
        doy == doe - (365 * yoe + yoe \div 4 - yoe \div 100)
        mp == (5 * doy + 2) \div 153
        month == IF mp < 10 THEN mp + 3 ELSE mp - 9
    IN  [year |-> yoe + era * 400 + (IF month <= 2 THEN 1 ELSE 0),
         month |-> month,
         day |-> doy - (153 * mp + 2) \div 5 + 1]

\* The second of the UTC day, counted from the local midnight, of a parsed
\* time: negative or beyond the day when the zone moves the date.
UtcSecond(t) == t.hour * 3600 + t.min * 60 + t.sec - ZoneOffset(t.zone)

\* timestamppb.New(t): t.Unix() and t.Nanosecond(), the seconds kept as
\* whole days and the second of the day.
TimestamppbNew(t) ==
    [nil |-> FALSE,
     days |-> DaysFromCivil(t.year, t.month, t.day) + UtcSecond(t) \div 86400,
     secs |-> UtcSecond(t) % 86400,
     nanos |-> FracNanos(t.frac)]

\* The wire form of the optional time of a request.
TimestampOf(t) == IF t = Nil THEN Nil ELSE TimestamppbNew(t)

\* fmt's %02d and the four-digit year of time.Format.
Pad(n, width) ==
    IF n < 0 THEN <<"-">> \o [i \in 1..(width - Len(NatStr(-n))) |-> "0"] \o NatStr(-n)
    ELSE [i \in 1..(width - Len(NatStr(n))) |-> "0"] \o NatStr(n)

\* The digits of a fraction without its trailing zeros.
RECURSIVE TrimZeros(_)
TrimZeros(digits) ==
    IF digits # <<>> /\ digits[Len(digits)] = "0"
    THEN TrimZeros(SubSeq(digits, 1, Len(digits) - 1))
    ELSE digits

\* The ".999999999" of the layout RFC3339Nano: nothing for a whole second.
FormatFraction(nanos) ==
    IF nanos = 0 THEN <<>> ELSE <<".">> \o TrimZeros(Pad(nanos, 9))

FormatCivil(date, secs, nanos) ==
    Pad(date.year, 4) \o <<"-">> \o Pad(date.month, 2) \o <<"-">> \o Pad(date.day, 2)
    \o <<"T">> \o Pad(secs \div 3600, 2) \o <<":">> \o Pad((secs % 3600) \div 60, 2)
    \o <<":">> \o Pad(secs % 60, 2) \o FormatFraction(nanos) \o <<"Z">>

\* ts.AsTime().Format(time.RFC3339Nano): AsTime is in UTC.
FormatRFC3339Nano(ts) == FormatCivil(CivilFromDays(ts.days), ts.secs, ts.nanos)

\* (*durationpb.Duration).String(): the text format of the message, the
\* fields that are not zero as name:value, sep between two of them (the
\* text format writes one space or two, by build).
DurationpbString(d, sep) ==
    (IF d.seconds # 0 THEN <<"s", "e", "c", "o", "n", "d", "s", ":">> \o Itoa(d.seconds)
     ELSE <<>>)
    \o (IF d.seconds # 0 /\ d.nanos # 0 THEN sep ELSE <<>>)
    \o (IF d.nanos # 0 THEN <<"n", "a", "n", "o", "s", ":">> \o Itoa(d.nanos) ELSE <<>>)

Separators == {<<" ">>, <<" ", " ">>}

\* An optional time of convertScheduleSpec.
TimeString(ts) == IF ts = Nil THEN NullStr ELSE Str(FormatRFC3339Nano(ts))

\* The jitter of convertScheduleSpec.
JitterString(d, sep) == IF d = Nil THEN NullStr ELSE Str(DurationpbString(d, sep))

\* An optional duration of convertScheduleSpec and convertScheduleAction.
CanonicalString(d) == IF d = Nil THEN NullStr ELSE Str(formatDurationCanonical(d))

\* Every is set whether the interval is nil or not, Offset only when the
\* phase is not nil.
IntervalModel(interval) ==
    [every |-> Str(formatDurationCanonical(IF interval.Interval = Nil THEN NilDuration
                                           ELSE interval.Interval)),
     offset |-> CanonicalString(interval.Phase)]

convertScheduleSpec(spec, sep) ==
    [intervals |-> [i \in 1..Len(spec.Interval) |-> IntervalModel(spec.Interval[i])],
     start_time |-> TimeString(spec.StartTime),
     end_time |-> TimeString(spec.EndTime),
     jitter |-> JitterString(spec.Jitter, sep)]

convertScheduleAction(action) ==
    [execution_timeout |-> CanonicalString(action.WorkflowExecutionTimeout),
     run_timeout |-> CanonicalString(action.WorkflowRunTimeout),
     task_timeout |-> CanonicalString(action.WorkflowTaskTimeout)]

\* enums.ScheduleOverlapPolicy.String(): the name of the value without its
\* prefix, in camel case.
OverlapPolicyString(policy) ==
    IF \E name \in OverlapNames : ScheduleOverlapPolicy(name) = policy
    THEN CHOOSE name \in OverlapNames : ScheduleOverlapPolicy(name) = policy
    ELSE "Unspecified"

\* The SchedulePolicyModel that Read builds.
SchedulePolicyModel(policies) ==
    [overlap |-> OverlapPolicyString(policies.OverlapPolicy),
     catchup_window |-> Str(formatDurationCanonical(policies.CatchupWindow)),
     pause_on_failure |-> policies.PauseOnFailure]

\* The ScheduleStateModel that Read builds, from the getters of the state.
ScheduleStateModel(state) ==
    [paused |-> state.Paused, limited_actions |-> state.LimitedActions,
     remaining_actions |-> state.RemainingActions, notes |-> state.Notes]

\* The state of a schedule that has run nothing yet.
FreshState ==
    [Paused |-> FALSE, LimitedActions |-> FALSE, RemainingActions |-> 0, Notes |-> <<>>]

\* What the server holds of a submitted request: the times as timestamps.
Stored(request) ==
    [Spec |-> [request.Spec EXCEPT !.StartTime = TimestampOf(request.Spec.StartTime),
                                   !.EndTime = TimestampOf(request.Spec.EndTime)],
     Action |-> request.Action,
     Policies |-> request.Policies,
     State |-> FreshState]

\* The answers of DescribeSchedule for a schedule made by request: an error,
\* or the schedule as submitted, with a memo or none.
DescribeScheduleAnswers(request) ==
    {[err |-> GrpcError(code), Memo |-> NilMemo, Schedule |-> Nil] :
        code \in {"NotFound", "Unavailable"}}
    \cup {[err |-> NilError, Memo |-> memo, Schedule |-> Stored(request)] :
            memo \in {m \in Memos : m.nil \/ Cardinality(DOMAIN m.Fields) = 1}}

\* The model Read stores: the one of the state with memo, spec, action,
\* state and policy replaced.
ReadModel(data, memo, schedule, sep) ==
    [spec |-> convertScheduleSpec(schedule.Spec, sep),
     workflow |-> convertScheduleAction(schedule.Action),
     policy |-> SchedulePolicyModel(schedule.Policies),
     state |-> ScheduleStateModel(schedule.State),
     memo |-> memo.result]

\* ScheduleResource.Read after the call: memo is what convertMemo returned.
ReadDescribed(prior, request, answer, memo, sep) ==
    IF HasError(memo.diags)
    THEN Outcome(memo.diags, <<"DescribeSchedule">>, request, prior)
    ELSE Outcome(memo.diags, <<"DescribeSchedule">>, request,
                 ScheduleState(ReadModel(prior.data, memo, answer.Schedule, sep)))

\* ScheduleResource.Read; order is the order in which convertMemo visits
\* the fields of the memo.
Read(prior, request, answer, order, sep) ==
    IF answer.err.goType # "nil"
    THEN Outcome(<<Diag("error", "Error Reading Schedule")>>, <<"DescribeSchedule">>,
                 request, prior)
    ELSE ReadDescribed(prior, request, answer,
                       IF answer.Memo.nil THEN NoMemoRet
                       ELSE convertMemo(answer.Memo, order), sep)

\* Read of a schedule that Create has just made, the server returning what
\* was submitted.
ScheduleRead ==
    /\ UNCHANGED exceptSched
    /\ schedOp = "Create"
    /\ schedState.exists
    /\ ~schedRequest.nil
    /\ \E answer \in DescribeScheduleAnswers(schedRequest), sep \in Separators :
          \E order \in Orders(IF answer.Memo.nil THEN {} ELSE DOMAIN answer.Memo.Fields) :
             /\ schedOp' = "Read"
             /\ Respond(Read(schedState, schedRequest, answer, order, sep))
    /\ UNCHANGED <<schedPlan, polArg, polRet, memoArg, memoRet>>

ReadNext == SchedCreate \/ ScheduleRead

(***************************************************************************)
(* The schedule resource: convertToScheduleAction on its own.              *)
(***************************************************************************)
TimeoutNames == {"execution_timeout", "run_timeout", "task_timeout"}

\* The workflow models: each timeout null, a duration or not a duration.
WorkflowModels == [TimeoutNames -> DurationValues \cup {NullStr}]

NoWorkflowModel == [nil |-> TRUE]

NoActionRet == [action |-> Nil, diags |-> <<>>]

ActIdle ==
    /\ actOp = "idle"
    /\ actArg = NoWorkflowModel
    /\ actRet = NoActionRet

ActInit == ActIdle

ConvertToScheduleAction ==
    /\ UNCHANGED exceptAct
    /\ actOp = "idle"
    /\ \E workflow \in WorkflowModels :
          /\ actOp' = "convertToScheduleAction"
          /\ actArg' = workflow
          /\ actRet' = convertToScheduleAction(workflow)

ActNext == ConvertToScheduleAction

(***************************************************************************)
(* The handlers that change the server: one run of Terraform applies one   *)
(* of them to a schedule, a namespace or a search attribute.               *)
(***************************************************************************)
SchedQuiet == schedOp = "idle"

NsQuiet == nsOp = "idle"

SaQuiet == \A p \in Procs : saOp[p] = "idle"

\* Create or Update of a schedule.
MutateSchedule ==
    /\ NsQuiet
    /\ SaQuiet
    /\ (SchedCreate \/ SchedUpdate)

\* Create or Update of a namespace.
MutateNamespace ==
    /\ SchedQuiet
    /\ SaQuiet
    /\ (NsCreate \/ NsUpdate)

\* Create of a search attribute, step by step, with its ticker, its context
\* and the server.
MutateSearchAttribute ==
    /\ SchedQuiet
    /\ NsQuiet
    /\ \/ \E p \in Procs : SACreateCheck(p)
       \/ \E p \in Procs : SACreateAdd(p)
       \/ \E p \in Procs : SATick(p)
       \/ \E p \in Procs : SAAwaitTick(p)
       \/ \E p \in Procs : SAAwaitDone(p)
       \/ \E p \in Procs : SACancel(p)
       \/ SAPropagate

MutationNext == MutateSchedule \/ MutateNamespace \/ MutateSearchAttribute

(***************************************************************************)
(* The provider: CreateGRPCClient on its own.                              *)
(***************************************************************************)
\* The arguments: with and without a client id, insecure or not, with and
\* without a tls block, whose certificate and key parse or do not.
ClientArgs ==
    [clientID : {"", "id"}, clientSecret : {"", "secret"}, insecure : BOOLEAN,
     useTLS : BOOLEAN, certString : {"", "pem", "garbage"}, keyString : {"pem", "garbage"},
     serverName : {"", "temporal.example"}]

NoClientArgs == [nil |-> TRUE]

NoClientRet == [err |-> FALSE, client |-> NoClient]

GcIdle ==
    /\ gcOp = "idle"
    /\ gcArgs = NoClientArgs
    /\ gcRet = NoClientRet

GcInit == GcIdle

CallCreateGRPCClient ==
    /\ UNCHANGED exceptGc
    /\ gcOp = "idle"
    /\ \E args \in ClientArgs :
          \E made \in CreateGRPCClient(args.clientID, args.clientSecret, "url",
                                       "openid,profile,email", <<"127.0.0.1", ":", "7233">>,
                                       args.insecure, args.useTLS, args.certString,
                                       args.keyString, "pem", args.serverName) :
             /\ gcOp' = "CreateGRPCClient"
             /\ gcArgs' = args
             /\ gcRet' = made

GcNext == CallCreateGRPCClient

(***************************************************************************)
(* Specifications, one per resource.                                       *)
(***************************************************************************)
vars == <<fmtVars, nsVars, saVars, impVars, schedVars, provVars, dsVars, retVars,
         concVars,
         actVars,
         gcVars>>

InitFormat == FmtInit /\ NsIdle /\ SaIdle /\ ImpIdle /\ SchedIdle /\ ProvIdle /\ DsIdle /\ RetIdle
    /\ ConcIdle
    /\ ActIdle
    /\ GcIdle

SpecFormat == InitFormat /\ [][FmtNext]_vars

InitNamespace == NsInit /\ FmtInit /\ SaIdle /\ ImpIdle /\ SchedIdle /\ ProvIdle /\ DsIdle /\ RetIdle
    /\ ConcIdle
    /\ ActIdle
    /\ GcIdle

SpecNamespace == InitNamespace /\ [][NsNext]_vars

InitSearchAttribute == SaInit /\ FmtInit /\ NsIdle /\ ImpIdle /\ SchedIdle /\ ProvIdle /\ DsIdle /\ RetIdle
    /\ ConcIdle
    /\ ActIdle
    /\ GcIdle

SpecSearchAttribute == InitSearchAttribute /\ [][SaNext]_vars

InitImport == ImpInit /\ FmtInit /\ NsIdle /\ SaIdle /\ SchedIdle /\ ProvIdle /\ DsIdle /\ RetIdle
    /\ ConcIdle
    /\ ActIdle
    /\ GcIdle

SpecImport == InitImport /\ [][ImpNext]_vars

InitSchedule == SchedInit /\ FmtInit /\ NsIdle /\ SaIdle /\ ImpIdle /\ ProvIdle /\ DsIdle /\ RetIdle
    /\ ConcIdle
    /\ ActIdle
    /\ GcIdle

SpecSchedule == InitSchedule /\ [][SchedNext]_vars

InitProvider == ProvInit /\ FmtInit /\ NsIdle /\ SaIdle /\ ImpIdle /\ SchedIdle /\ DsIdle /\ RetIdle
    /\ ConcIdle
    /\ ActIdle
    /\ GcIdle

SpecProvider == InitProvider /\ [][ProvNext]_vars

InitLookup ==
    DsInit /\ ImpInit /\ FmtInit /\ NsIdle /\ SaIdle /\ SchedIdle /\ ProvIdle /\ RetIdle
    /\ ConcIdle
    /\ ActIdle
    /\ GcIdle

SpecLookup == InitLookup /\ [][LookupNext]_vars

InitRetention ==
    RetInit /\ FmtInit /\ NsIdle /\ SaIdle /\ ImpIdle /\ SchedIdle /\ ProvIdle /\ DsIdle
    /\ ConcIdle
    /\ ActIdle
    /\ GcIdle

SpecRetention == InitRetention /\ [][RetNext]_vars

InitConcurrent ==
    ConcInit
    /\ DsIdle
    /\ FmtInit
    /\ ImpIdle
    /\ NsIdle
    /\ ProvIdle
    /\ RetIdle
    /\ SaIdle
    /\ SchedIdle
    /\ ActIdle
    /\ GcIdle

SpecConcurrent == InitConcurrent /\ [][ConcNext]_vars

InitScheduleRead == SchedInit /\ FmtInit /\ NsIdle /\ SaIdle /\ ImpIdle /\ ProvIdle /\ DsIdle /\ RetIdle
    /\ ConcIdle
    /\ ActIdle
    /\ GcIdle

SpecScheduleRead == InitScheduleRead /\ [][ReadNext]_vars

InitScheduleAction ==
    ActInit
    /\ ConcIdle
    /\ DsIdle
    /\ FmtInit
    /\ ImpIdle
    /\ NsIdle
    /\ ProvIdle
    /\ RetIdle
    /\ SaIdle
    /\ SchedIdle
    /\ GcIdle

SpecScheduleAction == InitScheduleAction /\ [][ActNext]_vars

InitMutation == SchedInit /\ FmtInit /\ NsInit /\ SaIdle /\ ImpIdle /\ ProvIdle /\ DsIdle /\ RetIdle
    /\ ConcIdle
    /\ ActIdle
    /\ GcIdle

SpecMutation == InitMutation /\ [][MutationNext]_vars

InitGRPCClient ==
    GcInit
    /\ ActIdle
    /\ ConcIdle
    /\ DsIdle
    /\ FmtInit
    /\ ImpIdle
    /\ NsIdle
    /\ ProvIdle
    /\ RetIdle
    /\ SaIdle
    /\ SchedIdle

SpecGRPCClient == InitGRPCClient /\ [][GcNext]_vars

(***************************************************************************)
(* C1: for every positive duration of whole minutes (hence every whole     *)
(* number of days, hours or minutes), the string formatDurationCanonical   *)
(* returns is accepted by time.ParseDuration and parses to the duration.   *)
(***************************************************************************)
C1_RoundTrip ==
    (/\ fmtOp = "formatDurationCanonical"
     /\ ~durArg.nil
     /\ durArg.nanos = 0
     /\ durArg.seconds > 0
     /\ durArg.seconds % 60 = 0)
    => (/\ durParsed.ok
        /\ durParsed.seconds = durArg.seconds
        /\ durParsed.nanos = 0)

(***************************************************************************)
(* C2: formatDurationCanonical returns "24h", "1h", "30m", "1m" for 86400, *)
(* 3600, 1800 and 60 seconds, and otherwise the count of the largest of    *)
(* day, hour, minute, second that divides the seconds, with the suffix     *)
(* d, h, m or s.                                                           *)
(***************************************************************************)
Divides(unit, s) == (IF s < 0 THEN -s ELSE s) % unit = 0

RefUnit(s) ==
    IF Divides(86400, s) THEN [len |-> 86400, suffix |-> "d"]
    ELSE IF Divides(3600, s) THEN [len |-> 3600, suffix |-> "h"]
    ELSE IF Divides(60, s) THEN [len |-> 60, suffix |-> "m"]
    ELSE [len |-> 1, suffix |-> "s"]

RefCount(s) ==
    IF s < 0 THEN -((-s) \div RefUnit(s).len) ELSE s \div RefUnit(s).len

RefFormat(s) ==
    CASE s = 86400 -> <<"2", "4", "h">>
      [] s = 3600 -> <<"1", "h">>
      [] s = 1800 -> <<"3", "0", "m">>
      [] s = 60 -> <<"1", "m">>
      [] OTHER -> Append(Itoa(RefCount(s)), RefUnit(s).suffix)

C2_FormatReference ==
    (fmtOp = "formatDurationCanonical" /\ ~durArg.nil)
    => durRet = RefFormat(durArg.seconds)

C2_Witness ==
    /\ fmtOp = "formatDurationCanonical"
    /\ durArg = Duration(2 * 86400, 0)
    /\ durRet = <<"2", "d">>

(***************************************************************************)
(* C3: formatRanges returns the empty string for an empty list, and        *)
(* otherwise the tokens of the ranges joined by ',' in list order; a token *)
(* is the start, then '-end' only when end > start, then '/step' only when *)
(* step > 1.                                                               *)
(***************************************************************************)
RefToken(r) ==
    LET endPart == IF r.End = r.Start \/ r.End < r.Start THEN <<>>
                   ELSE <<"-">> \o Itoa(r.End)
        stepPart == IF r.Step <= 1 THEN <<>> ELSE <<"/">> \o Itoa(r.Step)
    IN  Itoa(r.Start) \o endPart \o stepPart

RECURSIVE RefJoin(_)
RefJoin(rs) ==
    IF Len(rs) = 1 THEN RefToken(rs[1])
    ELSE RefJoin(SubSeq(rs, 1, Len(rs) - 1)) \o <<",">> \o RefToken(rs[Len(rs)])

C3_FormatRanges ==
    fmtOp = "formatRanges"
    => rngRet = (IF rngArg = <<>> THEN <<>> ELSE RefJoin(rngArg))

C3_Witness ==
    /\ fmtOp = "formatRanges"
    /\ rngArg = <<Range(1, 5, 2), Range(9, 9, 0)>>
    /\ rngRet = <<"1", "-", "5", "/", "2", ",", "9">>

(***************************************************************************)
(* C4: a namespace Update whose plan changes both the active cluster name  *)
(* and the replica cluster list relative to the prior state ends with an   *)
(* error diagnostic and without any remote call.                           *)
(***************************************************************************)
NsValidationRejected == HasError(nsDiags) /\ nsCalls = <<>>

C5_MembershipChecked ==
    (nsOp = "Update" /\ InList(nsPrior.active, nsPrior.clusters)) =>
        /\ (/\ nsPlan.clusters # nsPrior.clusters
            /\ ~InList(nsPrior.active, nsPlan.clusters))
           => NsValidationRejected
        /\ (/\ nsPlan.clusters = nsPrior.clusters
            /\ nsPlan.active # ""
            /\ nsPlan.active # nsPrior.active
            /\ ~InList(nsPlan.active, nsPrior.clusters))
           => NsValidationRejected
        /\ ~HasError(nsDiags) => InList(nsState.active, nsState.clusters)

(***************************************************************************)
(* C6: the poll of AwaitAddSearchAttributes issues exactly one list call   *)
(* per tick it handles, and a list call that succeeds (context not done)   *)
(* while the attribute is visible is the last one: the poll has then       *)
(* returned nil, Create has made no further call and has written state.    *)
(***************************************************************************)
TicksHandled(p) == saTicks[p] - (IF saTick[p] THEN 1 ELSE 0)

SeenAt(p, i) ==
    /\ ~saPolls[p][i].ctxDone
    /\ ~saPolls[p][i].failed
    /\ saPolls[p][i].visible

C6_ReturnsOnFirstSight ==
    \A p \in Procs :
        saOp[p] = "Create" =>
            /\ Len(saPolls[p]) = TicksHandled(p)
            /\ saPolls[p] # <<>> => Len(saCalls[p]) = 2 + Len(saPolls[p])
            /\ \A i \in DOMAIN saPolls[p] :
                  SeenAt(p, i) =>
                      /\ i = Len(saPolls[p])
                      /\ saAwaitRet[p] = "nil"
                      /\ saPc[p] = "ready"
                      /\ saState[p]
                      /\ ~HasError(saDiags[p])

C6_Witness ==
    \E p \in Procs :
        /\ saOp[p] = "Create"
        /\ saAwaitRet[p] = "nil"
        /\ Len(saPolls[p]) = 2
        /\ ~saPolls[p][1].visible
        /\ SeenAt(p, 2)

Colons(id) == {i \in DOMAIN id : id[i] = ":"}

RefNamespace(id) ==
    IF Colons(id) = {} THEN StrDefault
    ELSE SubSeq(id, 1, (CHOOSE i \in Colons(id) : TRUE) - 1)

RefName(id) ==
    IF Colons(id) = {} THEN id
    ELSE SubSeq(id, (CHOOSE i \in Colons(id) : TRUE) + 1, Len(id))

C8_ImportIdParsing ==
    impOp # "idle" =>
        IF Cardinality(Colons(impId)) >= 2
        THEN /\ impDiags = <<Diag("error", "Invalid ID format")>>
             /\ impCalls = <<>>
             /\ ~impState.set
        ELSE /\ Len(impCalls) = 1
             /\ impCalls[1].namespace = RefNamespace(impId)
             /\ impOp = "Schedule.ImportState" => impCalls[1].name = RefName(impId)
             /\ \A i \in DOMAIN impDiags : impDiags[i].summary # "Invalid ID format"
             /\ impState.set =>
                   /\ impState.namespace = RefNamespace(impId)
                   /\ impState.name = RefName(impId)

C8_Witness ==
    /\ impOp = "SearchAttribute.ImportState"
    /\ impId = <<"a", ":", "b", ":">>
    /\ impDiags = <<Diag("error", "Invalid ID format")>>
    /\ impCalls = <<>>

(***************************************************************************)
(* C9: an overlap-policy name outside the table (Skip, BufferOne,          *)
(* BufferAll, CancelOther, TerminateOther, AllowAll) is rejected locally:  *)
(* convertToSchedulePolicy returns an error diagnostic and no policy, and  *)
(* Create and Update end with an error and no CreateSchedule or            *)
(* UpdateSchedule call.  A name of the table is accepted: no diagnostic    *)
(* about the overlap policy, and once the catch-up window parses, a policy *)
(* whose enum value is the one of that name and of no other name.          *)
(***************************************************************************)
ValidOverlapNames ==
    {"Skip", "BufferOne", "BufferAll", "CancelOther", "TerminateOther", "AllowAll"}

RefOverlapEnum ==
    [Skip |-> "SCHEDULE_OVERLAP_POLICY_SKIP",
     BufferOne |-> "SCHEDULE_OVERLAP_POLICY_BUFFER_ONE",
     BufferAll |-> "SCHEDULE_OVERLAP_POLICY_BUFFER_ALL",
     CancelOther |-> "SCHEDULE_OVERLAP_POLICY_CANCEL_OTHER",
     TerminateOther |-> "SCHEDULE_OVERLAP_POLICY_TERMINATE_OTHER",
     AllowAll |-> "SCHEDULE_OVERLAP_POLICY_ALLOW_ALL"]

C9_OverlapPolicyTable ==
    /\ schedOp = "convertToSchedulePolicy" /\ polArg.overlap \notin ValidOverlapNames
          => polRet.policies = Nil /\ HasError(polRet.diags)
    /\ schedOp = "convertToSchedulePolicy" /\ polArg.overlap \in ValidOverlapNames
          => /\ \A i \in DOMAIN polRet.diags :
                    polRet.diags[i].summary # "Invalid Overlap Policy"
             /\ ParseDuration(polArg.catchup_window.value).ok
                   => /\ polRet.diags = <<>>
                      /\ polRet.policies # Nil
                      /\ polRet.policies.OverlapPolicy = RefOverlapEnum[polArg.overlap]
                      /\ \A other \in ValidOverlapNames \ {polArg.overlap} :
                            RefOverlapEnum[other] # polRet.policies.OverlapPolicy
    /\ schedOp \in {"Create", "Update"} /\ schedPlan.policy.overlap \notin ValidOverlapNames
          => HasError(schedDiags) /\ schedCalls = <<>> /\ schedRequest = NoRequest

C9_Witness ==
    /\ schedOp = "convertToSchedulePolicy"
    /\ polArg.overlap = "Invalid"
    /\ polArg.catchup_window = Str(Dur5m)
    /\ polRet.policies = Nil
    /\ HasError(polRet.diags)

(***************************************************************************)
(* C10: Create and Update make no remote call once a diagnostic of error   *)
(* level has accumulated.  Whenever an interval duration, an interval      *)
(* offset, the start or end time, the jitter, an action timeout or the     *)
(* catch-up window of the plan does not parse, or its overlap policy is    *)
(* invalid, the handler ends with an error, no CreateSchedule or           *)
(* UpdateSchedule call and the state as it was; and when it did call, the  *)
(* only errors of the response are those of the call.                      *)
(***************************************************************************)
BadDuration(str) == ~str.null /\ ~ParseDuration(str.value).ok

BadTime(str) == ~str.null /\ ~ParseRFC3339(str.value).ok

InvalidPlan(plan) ==
    \/ \E i \in DOMAIN plan.spec.intervals :
          BadDuration(plan.spec.intervals[i].every) \/ BadDuration(plan.spec.intervals[i].offset)
    \/ BadTime(plan.spec.start_time)
    \/ BadTime(plan.spec.end_time)
    \/ BadDuration(plan.spec.jitter)
    \/ BadDuration(plan.workflow.execution_timeout)
    \/ BadDuration(plan.workflow.run_timeout)
    \/ BadDuration(plan.workflow.task_timeout)
    \/ BadDuration(plan.policy.catchup_window)
    \/ plan.policy.overlap \notin ValidOverlapNames

RemoteErrors == {"Schedule Already Exists", "Request error", "Error Updating Schedule"}

C10_NoCallOnError ==
    [][schedOp' \in {"Create", "Update"} =>
          /\ InvalidPlan(schedPlan') =>
                /\ HasError(schedDiags')
                /\ schedCalls' = <<>>
                /\ schedRequest' = NoRequest
                /\ schedState' = schedState
          /\ schedCalls' # <<>> =>
                /\ Len(schedCalls') = 1
                /\ \A i \in DOMAIN schedDiags' :
                      schedDiags'[i].severity = "error" => schedDiags'[i].summary \in RemoteErrors
                /\ HasError(schedDiags') => schedState' = schedState]_vars

C10_Witness ==
    /\ schedOp = "Update"
    /\ schedPlan.workflow.run_timeout = Str(DurAbc)
    /\ schedPlan.spec.start_time = Str(TimeDateOnly)
    /\ HasError(schedDiags)
    /\ schedCalls = <<>>
    /\ schedState = ScheduleState(ScheduleResourceModel(DefaultFields))

(***************************************************************************)
(* C11: convertMemo reports one error diagnostic for each payload that     *)
(* does not decode and still processes the other keys: the diagnostics     *)
(* returned for a memo with k undecodable payloads hold k errors, and      *)
(* every decodable key is in the map returned, with its decoded value.     *)
(***************************************************************************)
Undecodable(memo) ==
    {k \in DOMAIN memo.Fields : ~JsonUnmarshalString(memo.Fields[k]).ok}

ErrorCount(diags) == Cardinality({i \in DOMAIN diags : diags[i].severity = "error"})

C11_PerKeyErrors ==
    schedOp = "convertMemo" /\ ~memoArg.nil =>
        /\ ErrorCount(memoRet.diags) = Cardinality(Undecodable(memoArg))
        /\ \A k \in DOMAIN memoArg.Fields \ Undecodable(memoArg) :
              /\ ~memoRet.result.null
              /\ k \in DOMAIN memoRet.result.elements
              /\ memoRet.result.elements[k] = JsonUnmarshalString(memoArg.Fields[k]).value

(***************************************************************************)
(* C12: when the list response of the existence check of Create has a      *)
(* custom attribute of the requested name, Create ends with the error      *)
(* 'Already Exists', having made the list call only: no AddSearchAttributes *)
(* call, no poll and no state.  A failure of AddSearchAttributes itself is *)
(* reported under another summary, also without state.                     *)
(***************************************************************************)
AlreadyExistsDiag == Diag("error", "Already Exists")

LastCall(p) == IF saCalls[p] = <<>> THEN "none" ELSE saCalls[p][Len(saCalls[p])]

C12_ExistenceCheck ==
    \A p \in Procs :
        /\ saOp[p] = "Create" /\ ~saCheck[p].failed /\ saCheck[p].custom
              => /\ saDiags[p] = <<AlreadyExistsDiag>>
                 /\ saCalls[p] = <<"ListSearchAttributes">>
                 /\ saPolls[p] = <<>>
                 /\ saPc[p] = "ready"
                 /\ ~saState[p]
        /\ saOp[p] = "Create" /\ ~(~saCheck[p].failed /\ saCheck[p].custom)
              => \A i \in DOMAIN saDiags[p] : saDiags[p][i] # AlreadyExistsDiag
        /\ saOp[p] = "Create" /\ saPc[p] = "ready" /\ saAwaitRet[p] = "none"
                                /\ LastCall(p) = "AddSearchAttributes"
              => /\ ~saCheck[p].failed /\ ~saCheck[p].custom
                 /\ saCalls[p] = <<"ListSearchAttributes", "AddSearchAttributes">>
                 /\ HasError(saDiags[p])
                 /\ \A i \in DOMAIN saDiags[p] :
                       saDiags[p][i].summary \in {"Request error", "Request Error"}
                 /\ saPolls[p] = <<>>
                 /\ ~saState[p]

C12_Witness ==
    \E p \in Procs :
        /\ saOp[p] = "Create"
        /\ saCheck[p].custom
        /\ saBackend = "visible"
        /\ saDiags[p] = <<AlreadyExistsDiag>>
        /\ saCalls[p] = <<"ListSearchAttributes">>

(***************************************************************************)
(* C13: Update of a search attribute does nothing: no remote call, no      *)
(* diagnostic, state and server as they were.  Hence over all runs of      *)
(* Create, Read, Update and Delete the type a registered attribute has     *)
(* never changes: AddSearchAttributes is sent by Create only, after a list *)
(* response without the name, RemoveSearchAttributes by Delete only, and   *)
(* the registered type changes only from none (an add of Create) and to    *)
(* none (a remove of Delete).                                              *)
(***************************************************************************)
C13_UpdateIsNoOp ==
    [][/\ \A p \in Procs :
             saOp'[p] = "Update" /\ saOp[p] # "Update"
                => /\ saCalls'[p] = <<>>
                   /\ saDiags'[p] = <<>>
                   /\ saState' = saState
                   /\ saBackend' = saBackend
                   /\ saType' = saType
       /\ \A p \in Procs :
             saOp'[p] = "Update" => saCalls'[p] = <<>> /\ saDiags'[p] = <<>>
       /\ \A p \in Procs :
             \A i \in DOMAIN saCalls'[p] :
                /\ saCalls'[p][i] = "AddSearchAttributes"
                      => saOp'[p] = "Create" /\ saCheck'[p] = NoCheck
                /\ saCalls'[p][i] = "RemoveSearchAttributes" => saOp'[p] = "Delete"
       /\ saType # saType' /\ saType # "none"
             => /\ saType' = "none"
                /\ \E p \in Procs :
                      saOp'[p] = "Delete" /\ saCalls'[p] = <<"RemoveSearchAttributes">>
       /\ saType # saType' /\ saType = "none"
             => \E p \in Procs :
                   /\ saOp'[p] = "Create"
                   /\ saCalls'[p] = <<"ListSearchAttributes", "AddSearchAttributes">>
                   /\ saType' = TypeOf(p)]_vars

C13_Witness ==
    \E p \in Procs :
        /\ saOp[p] = "Update"
        /\ saState[p]
        /\ saCalls[p] = <<>>
        /\ saType \notin {"none", TypeOf(p)}

(***************************************************************************)
(* C14: when DescribeNamespace answers Read with not found, Read only logs *)
(* a warning: the response has no error diagnostic and the state is as it  *)
(* was.  Any other error of the call is an error diagnostic, and the state *)
(* is as it was too.                                                       *)
(***************************************************************************)
C14_ReadNotFoundIsSoft ==
    nsOp = "Read" =>
        /\ nsErr.code = "NotFound"
              => /\ ~HasError(nsDiags)
                 /\ nsDiags = <<Diag("warning-log", "Namespace not found")>>
                 /\ nsState = nsPrior
        /\ nsErr.goType # "nil" /\ nsErr.code # "NotFound"
              => /\ nsDiags = <<Diag("error", "Client Error")>>
                 /\ nsState = nsPrior

C14_Witness ==
    /\ nsOp = "Read"
    /\ nsErr.code = "NotFound"
    /\ nsCalls = <<"DescribeNamespace">>
    /\ ~nsState.null
    /\ ~nsBackend.exists

(***************************************************************************)
(* C15: when the backend answers RegisterNamespace with already exists,    *)
(* Create reports a diagnostic that differs from the one of a generic      *)
(* request failure, and no state is written in either case.                *)
(***************************************************************************)
GenericRequestFailure == <<Diag("error", "Request error")>>

C15_AlreadyExistsIsDistinct ==
    nsOp = "Create" /\ nsCalls = <<"RegisterNamespace">> =>
        /\ HasError(nsDiags)
        /\ nsState.null
        /\ nsErr.code = "AlreadyExists" => nsDiags # GenericRequestFailure
        /\ nsErr.code # "AlreadyExists" => nsDiags = GenericRequestFailure

(***************************************************************************)
(* C16: a Create of a name that is registered already (by an earlier       *)
(* successful Create of that name) ends with the request error of a failed *)
(* registration, for the AlreadyExists status of the backend, after the    *)
(* RegisterNamespace call only (no DescribeNamespace) and without state.   *)
(***************************************************************************)
C16_SecondCreateFails ==
    nsOp = "Create" /\ nsErr.code = "AlreadyExists" =>
        /\ nsErr.goType = "*status.Error"
        /\ nsDiags = <<Diag("error", "Request error")>>
        /\ nsCalls = <<"RegisterNamespace">>
        /\ nsState = NullModel

C16_Witness ==
    /\ nsOp = "Create"
    /\ nsErr.code = "AlreadyExists"
    /\ nsBackend.exists
    /\ nsState.null
    /\ nsCalls = <<"RegisterNamespace">>

(***************************************************************************)
(* C17. Each connection setting is the configuration value when that is    *)
(* non-null and the environment variable otherwise; an empty host, port or *)
(* audience becomes 127.0.0.1, 7233 or "openid,profile,email"; a           *)
(* TEMPORAL_INSECURE that is set and is not a boolean literal gives an     *)
(* error and no client.                                                    *)
(***************************************************************************)
BoolTrue == {"1", "t", "T", "TRUE", "true", "True"}

BoolFalse == {"0", "f", "F", "FALSE", "false", "False"}

InsecureUnparsable ==
    provEnv["insecure"].set /\ provEnv["insecure"].value \notin BoolTrue \cup BoolFalse

RefSetting(k) ==
    IF ~provConfig[k].null THEN provConfig[k].value
    ELSE IF ~provEnv[k].set THEN (IF k = "insecure" THEN FALSE ELSE "")
    ELSE IF k = "insecure" THEN provEnv[k].value \in BoolTrue
    ELSE provEnv[k].value

RefDefaulted(k, default) == IF RefSetting(k) = "" THEN default ELSE RefSetting(k)

C17_SettingsResolution ==
    provOp = "Configure" =>
        /\ InsecureUnparsable => HasError(provDiags) /\ provClient = NoClient
        /\ ~provClient.nil =>
              /\ provClient.endpoint
                   = <<RefDefaulted("host", "127.0.0.1"), ":", RefDefaulted("port", "7233")>>
              /\ provClient.audience = RefDefaulted("audience", "openid,profile,email")
              /\ provClient.tokenURL = RefSetting("token_url")
              /\ provClient.clientID = RefSetting("client_id")
              /\ provClient.clientSecret = RefSetting("client_secret")
              /\ provClient.insecure = RefSetting("insecure")
        /\ (provClient.nil /\ ~InsecureUnparsable
              /\ \A k \in SettingNames : ~provConfig[k].unknown)
             => provDiags = <<Diag("error", "Unable to Create Temporal API Client")>>

C17_Witness ==
    /\ provOp = "Configure"
    /\ ~provClient.nil
    /\ provConfig["host"] = CfgString("cfg")
    /\ provEnv["host"] = EnvSet("env")
    /\ provClient.endpoint = <<"cfg", ":", "7233">>

(***************************************************************************)
(* C18. The data source finds a name among the custom attributes first and *)
(* among the system attributes second, writes the type found, and reports  *)
(* 'Not Found' only for a name in neither map.  The import of the resource *)
(* looks among the custom attributes only: a name that is a system         *)
(* attribute only ends with 'Not Found' and no state.                      *)
(***************************************************************************)
TypesIn(m, k) == {entry[2] : entry \in {x \in m : x[1] = k}}

ImportedName == RefName(impId)

C18_LookupScope ==
    /\ (dsOp = "Read" /\ dsCalls # <<>> /\ ~dsResp.failed) =>
          IF TypesIn(dsResp.custom, dsConfig.name.value) # {}
          THEN /\ dsState.set /\ dsDiags = <<>>
               /\ dsState.type \in TypesIn(dsResp.custom, dsConfig.name.value)
          ELSE IF TypesIn(dsResp.system, dsConfig.name.value) # {}
          THEN /\ dsState.set /\ dsDiags = <<>>
               /\ dsState.type \in TypesIn(dsResp.system, dsConfig.name.value)
          ELSE ~dsState.set /\ dsDiags = <<Diag("error", "Not Found")>>
    /\ (impOp = "SearchAttribute.ImportState" /\ impCalls # <<>> /\ ~impResp.failed) =>
          IF TypesIn(impResp.custom, ImportedName) # {}
          THEN /\ impState.set /\ impDiags = <<>>
               /\ impState.type \in TypesIn(impResp.custom, ImportedName)
          ELSE ~impState.set /\ impDiags = <<Diag("error", "Not Found")>>

C18_Witness ==
    /\ dsOp = "Read"
    /\ dsConfig.name = Str(<<"a">>)
    /\ dsResp = [failed |-> FALSE, custom |-> {}, system |-> {<<<<"a">>, "Keyword">>}]
    /\ dsState.set /\ dsState.type = "Keyword"
    /\ impOp = "SearchAttribute.ImportState"
    /\ impId = <<"a">>
    /\ impResp = dsResp
    /\ ~impState.set
    /\ impDiags = <<Diag("error", "Not Found")>>

(***************************************************************************)
(* C19. A data block with a name and no namespace is read with success in  *)
(* the namespace "default": one list call for "default", and a state whose *)
(* namespace is "default".                                                 *)
(***************************************************************************)
C19_DefaultNamespace ==
    (dsOp = "Read" /\ ~dsConfig.name.null /\ dsConfig.namespace.null) =>
        /\ ~HasError(dsDiags) \/ dsDiags \in {<<Diag("error", "API Client Error")>>,
                                              <<Diag("error", "Not Found")>>}
        /\ Len(dsCalls) = 1
        /\ dsCalls[1].namespace = StrDefault
        /\ dsState.set => dsState.namespace = StrDefault

(***************************************************************************)
(* C20. A retention of d days goes to the wire as d*24 hours; a retention  *)
(* of the wire comes back as its whole days, the rest discarded.  So a     *)
(* Read after a Create or Update of d >= 0 days gives d, and a retention   *)
(* of the server that is not a whole number of days gives the days below   *)
(* it.                                                                     *)
(***************************************************************************)
WireIsDays(pb, d) ==
    ~pb.neg /\ pb.seconds = [days |-> d, secs |-> 0] /\ pb.nanos = 0

C20_ToWire ==
    (retOp \in {"Create", "Update"} /\ retWriter = retOp) => WireIsDays(retTtl.ttl, retPlan)

C20_FromWire ==
    (retOp = "Read" /\ ~retTtl.ttl.neg) => retState.days = retTtl.ttl.seconds.days

C20_RoundTrip ==
    (retOp = "Read" /\ retWriter \in {"Create", "Update"}) => retState.days = retPlan

C20_RetentionMapping == C20_ToWire /\ C20_FromWire /\ C20_RoundTrip

(***************************************************************************)
(* C21. Handlers that run at the same time on different schedules share no *)
(* state they write: r.client is written by Configure only, the            *)
(* package-level map by nobody, and what a handler answers is what it      *)
(* answers alone, for its request, its prior state and the answer of the   *)
(* server about its own schedule.                                          *)
(***************************************************************************)
AloneOutcome(h) ==
    CASE cOp[h] = "Create" -> Create(cPlan[h], cState[h], FALSE, cAnswer[h])
      [] cOp[h] = "Update" -> Update(cPlan[h], cState[h], FALSE, cAnswer[h])
      [] OTHER -> IF cAnswer[h] = NilError
                  THEN Outcome(<<>>, <<"DeleteSchedule">>, NoRequest, NoSchedule)
                  ELSE Outcome(<<Diag("error", "Error Deleting Schedule")>>,
                               <<"DeleteSchedule">>, NoRequest, cState[h])

C21_OutcomeAlone == \A h \in Handlers : cPc[h] = "done" => cOut[h] = AloneOutcome(h)

C21_OnlyConfigureWrites ==
    /\ pkgOverlap' = pkgOverlap
    /\ rClient' # rClient => (\A h \in Handlers : cPc[h] = "idle" /\ cPc'[h] = "idle")

IsUnitDuration(str) ==
    /\ ~str.null
    /\ Len(str.value) >= 2
    /\ str.value[Len(str.value)] \in {"h", "m", "s"}
    /\ DigitRun(str.value, 1) = Len(str.value) - 1

\* The string read is the one configured, for a string of the claim's form.
SameString(configured, read) == IsUnitDuration(configured) => read = configured

\* Read has stored the schedule that Create made.
ReadStored == schedOp = "Read" /\ schedDiags = <<>> /\ schedState.exists

C22_NoDrift ==
    ReadStored =>
        /\ Len(schedState.data.spec.intervals) = Len(schedPlan.spec.intervals)
        /\ \A i \in DOMAIN schedPlan.spec.intervals :
              /\ SameString(schedPlan.spec.intervals[i].every,
                            schedState.data.spec.intervals[i].every)
              /\ SameString(schedPlan.spec.intervals[i].offset,
                            schedState.data.spec.intervals[i].offset)
        /\ \A k \in {"execution_timeout", "run_timeout", "task_timeout"} :
              SameString(schedPlan.workflow[k], schedState.data.workflow[k])

\* The strings the acceptance tests assert do not drift.
C22_TestedStrings ==
    \A seconds \in {86400, 43200, 3600, 21600, 1800, 10} :
        /\ ParseDuration(formatDurationCanonical(Duration(seconds, 0))).ok
        /\ ParseDuration(formatDurationCanonical(Duration(seconds, 0))).seconds = seconds

(***************************************************************************)
(* C23: the poll of AwaitAddSearchAttributes lists again only at the next  *)
(* tick after a response without the attribute, and makes no other retry:  *)
(* a list error ends it at once.  When it ends without success it returns  *)
(* the error of its last list call or the error of the context.            *)
(***************************************************************************)
\* The i-th list call of the poll answered without error and without the
\* attribute.
NotYet(p, i) == ~saPolls[p][i].failed /\ ~saPolls[p][i].visible

C23_OnlyTickRetry ==
    \A p \in Procs :
        saOp[p] = "Create" =>
            /\ Len(saPolls[p]) = TicksHandled(p)
            /\ \A i \in DOMAIN saPolls[p] :
                  (i < Len(saPolls[p]) \/ saAwaitRet[p] = "none") => NotYet(p, i)
            /\ saAwaitRet[p] = "listErr" =>
                  /\ saPolls[p] # <<>>
                  /\ saPolls[p][Len(saPolls[p])].failed
            /\ saAwaitRet[p] = "ctx.Err" =>
                  /\ saCtxDone[p]
                  /\ \A i \in DOMAIN saPolls[p] : NotYet(p, i)
            /\ saAwaitRet[p] \in {"listErr", "ctx.Err"} =>
                  /\ saPc[p] = "ready"
                  /\ saDiags[p] = <<Diag("error", "Request Error: Error awaiting results")>>
                  /\ ~saState[p]

\* A poll that listed twice and ended on the error of the second call, and
\* one that ended on the context after a call.
C23_Witness ==
    /\ \E p \in Procs :
          /\ saOp[p] = "Create"
          /\ saAwaitRet[p] = "listErr"
          /\ Len(saPolls[p]) = 2
          /\ NotYet(p, 1)
          /\ ~saPolls[p][2].ctxDone
    /\ \E p \in Procs :
          /\ saOp[p] = "Create"
          /\ saAwaitRet[p] = "ctx.Err"
          /\ Len(saPolls[p]) = 1

(***************************************************************************)
(* C24: convertToScheduleAction parses the three workflow timeouts         *)
(* independently: a null timeout leaves its wire field unset, a valid one  *)
(* sets its own wire field, an invalid one adds exactly one error naming   *)
(* that timeout, and k invalid timeouts give k error diagnostics.          *)
(***************************************************************************)
TimeoutSummary(k) ==
    CASE k = "execution_timeout" -> "Invalid Execution Timeout"
      [] k = "run_timeout" -> "Invalid Run Timeout"
      [] k = "task_timeout" -> "Invalid Task Timeout"

TimeoutWire(k) ==
    CASE k = "execution_timeout" -> "WorkflowExecutionTimeout"
      [] k = "run_timeout" -> "WorkflowRunTimeout"
      [] k = "task_timeout" -> "WorkflowTaskTimeout"

\* The errors of the diagnostics with the given summary.
ErrorsNamed(diags, summary) ==
    Cardinality({i \in DOMAIN diags : diags[i] = Diag("error", summary)})

InvalidTimeout(timeout) == ~timeout.null /\ ~ParseDuration(timeout.value).ok

C24_IndependentTimeouts ==
    actOp = "convertToScheduleAction" =>
        /\ \A k \in TimeoutNames :
              /\ actArg[k].null =>
                    /\ actRet.action[TimeoutWire(k)] = Nil
                    /\ ErrorsNamed(actRet.diags, TimeoutSummary(k)) = 0
              /\ (~actArg[k].null /\ ~InvalidTimeout(actArg[k])) =>
                    /\ actRet.action[TimeoutWire(k)]
                         = Duration(ParseDuration(actArg[k].value).seconds,
                                    ParseDuration(actArg[k].value).nanos)
                    /\ ErrorsNamed(actRet.diags, TimeoutSummary(k)) = 0
              /\ InvalidTimeout(actArg[k]) =>
                    ErrorsNamed(actRet.diags, TimeoutSummary(k)) = 1
        /\ Len(actRet.diags) = Cardinality({k \in TimeoutNames : InvalidTimeout(actArg[k])})

\* Three invalid timeouts, and one invalid between a null and a valid one.
C24_Witness ==
    /\ actOp = "convertToScheduleAction"
    /\ actArg.execution_timeout = Str(DurAbc)
    /\ actArg.run_timeout = Str(Dur2d)
    /\ actArg.task_timeout = Str(DurAbc)
    /\ Len(actRet.diags) = 3

C24_WitnessMixed ==
    /\ actOp = "convertToScheduleAction"
    /\ actArg.execution_timeout = NullStr
    /\ actArg.run_timeout = Str(DurAbc)
    /\ actArg.task_timeout = Str(Dur10s)
    /\ actRet.diags = <<Diag("error", "Invalid Run Timeout")>>
    /\ actRet.action.WorkflowTaskTimeout = Duration(10, 0)

(***************************************************************************)
(* C25: when CreateSchedule, UpdateSchedule, RegisterNamespace,            *)
(* UpdateNamespace or AddSearchAttributes returns an error, the handler    *)
(* adds an error diagnostic, makes no further remote call and leaves the   *)
(* state as it was; state is written only after the call succeeded.        *)
(***************************************************************************)
\* The outcome of a schedule handler for an answer of its mutating call.
FailsClean(out, prior, failed, call) ==
    /\ (out.calls # <<>> /\ failed) =>
          /\ HasError(out.diags)
          /\ out.calls = <<call>>
          /\ out.state = prior
    /\ out.state # prior =>
          /\ ~failed
          /\ out.calls = <<call>>
          /\ ~HasError(out.diags)

C25_ScheduleStep ==
    /\ schedOp' = "Create" =>
          /\ \A answer \in CreateScheduleAnswers :
                FailsClean(Create(schedPlan', schedState, FALSE, answer), schedState,
                           answer.goType # "nil", "CreateSchedule")
          /\ schedState' # schedState =>
                schedCalls' = <<"CreateSchedule">> /\ ~HasError(schedDiags')
    /\ schedOp' = "Update" =>
          /\ \A answer \in UpdateScheduleAnswers :
                FailsClean(Update(schedPlan', schedState, FALSE, answer), schedState,
                           answer.goType # "nil", "UpdateSchedule")
          /\ schedState' # schedState =>
                schedCalls' = <<"UpdateSchedule">> /\ ~HasError(schedDiags')

C25_NamespaceStep ==
    nsOp' \in {"Create", "Update"} =>
        /\ (nsErr'.goType # "nil" /\ Len(nsCalls') = 1) =>
              /\ HasError(nsDiags')
              /\ nsCalls' \in {<<"RegisterNamespace">>, <<"UpdateNamespace">>}
              /\ nsState' = nsState
              /\ nsBackend' = nsBackend
        /\ nsState' # nsState =>
              /\ nsErr'.goType = "nil"
              /\ ~HasError(nsDiags')
              /\ nsCalls' = IF nsOp' = "Create"
                            THEN <<"RegisterNamespace", "DescribeNamespace">>
                            ELSE <<"UpdateNamespace">>

\* The step of Create that calls AddSearchAttributes.
AddStep(p) == saPc[p] = "Create:add" /\ saPc'[p] # "Create:add"

C25_SearchAttributeStep ==
    \A p \in Procs :
        /\ AddStep(p) =>
              \/ /\ saPc'[p] = "Create:await"
                 /\ saBackend' # "absent"
                 /\ saDiags'[p] = saDiags[p]
                 /\ ~saState'[p]
              \/ /\ saPc'[p] = "ready"
                 /\ HasError(saDiags'[p])
                 /\ saBackend' = saBackend
                 /\ saCalls'[p] = <<"ListSearchAttributes", "AddSearchAttributes">>
                 /\ ~saState'[p]
        /\ (saState'[p] /\ ~saState[p]) =>
              /\ Len(saCalls'[p]) >= 3
              /\ saCalls'[p][2] = "AddSearchAttributes"
              /\ saBackend' # "absent"
              /\ ~HasError(saDiags'[p])

\* A handler that has ended on the error of its mutating call makes no
\* call after it.
C25_NoCallAfterError ==
    \A p \in Procs :
        (saOp[p] = "Create" /\ saPc[p] = "ready" /\ Len(saCalls[p]) = 2) =>
            HasError(saDiags[p]) /\ ~saState[p]

C25_NoStateOnMutationError ==
    []C25_NoCallAfterError
    /\ [][C25_ScheduleStep /\ C25_NamespaceStep /\ C25_SearchAttributeStep]_vars

\* Each of the five calls has failed in some run, and has succeeded.
C25_WitnessSchedule ==
    /\ schedOp = "Update"
    /\ schedCalls = <<"UpdateSchedule">>
    /\ schedDiags = <<Diag("error", "Error Updating Schedule")>>

C25_WitnessNamespace ==
    /\ nsOp = "Update"
    /\ nsErr.goType # "nil"
    /\ HasError(nsDiags)

C25_Witness ==
    \E p \in Procs :
        /\ saOp[p] = "Create"
        /\ saPc[p] = "ready"
        /\ saCalls[p] = <<"ListSearchAttributes", "AddSearchAttributes">>
        /\ HasError(saDiags[p])
        /\ saState[3 - p]

(***************************************************************************)
(* C26: SearchAttribute Create writes state only after a list call, made   *)
(* after the successful AddSearchAttributes, showed the attribute among    *)
(* the custom attributes: when state is written the calls are List (the    *)
(* existence check), Add, then one or more Lists, the last of which shows  *)
(* the attribute.                                                          *)
(***************************************************************************)
\* Create of p has written the state.
CreateStored(p) == saOp[p] = "Create" /\ saState[p]

C26_StateAfterSeen ==
    \A p \in Procs :
        CreateStored(p) =>
            /\ saPolls[p] # <<>>
            /\ Len(saCalls[p]) = 2 + Len(saPolls[p])
            /\ saCalls[p][1] = "ListSearchAttributes"
            /\ saCalls[p][2] = "AddSearchAttributes"
            /\ \A i \in 3..Len(saCalls[p]) : saCalls[p][i] = "ListSearchAttributes"
            /\ ~saCheck[p].failed /\ ~saCheck[p].custom
            /\ SeenAt(p, Len(saPolls[p]))
            /\ saAwaitRet[p] = "nil"
            /\ saDiags[p] = <<>>

\* State written after one list call of the poll.
C26_Witness ==
    \E p \in Procs :
        /\ CreateStored(p)
        /\ saCalls[p] = <<"ListSearchAttributes", "AddSearchAttributes",
                          "ListSearchAttributes">>

(***************************************************************************)
(* C27: of two SearchAttribute Creates for the same namespace and name     *)
(* that run concurrently against a server without the attribute, at most   *)
(* one issues AddSearchAttributes and at most one ends by writing state.   *)
(***************************************************************************)
\* Create of p has called AddSearchAttributes.
CreateAdded(p) ==
    /\ saOp[p] = "Create"
    /\ Len(saCalls[p]) >= 2
    /\ saCalls[p][2] = "AddSearchAttributes"

C27_AtMostOneAdds == \A p, q \in Procs : (CreateAdded(p) /\ CreateAdded(q)) => p = q

C27_AtMostOneStores == \A p, q \in Procs : (CreateStored(p) /\ CreateStored(q)) => p = q

C27_CheckAndAddAtomic == C27_AtMostOneAdds /\ C27_AtMostOneStores

(***************************************************************************)
(* C28 as claimed: once the context of Create is cancelled,                *)
(* AwaitAddSearchAttributes issues no further ListSearchAttributes call,   *)
(* whatever the order of the tick and the cancellation.                    *)
(***************************************************************************)
C28_NoListAfterCancel ==
    \A p \in Procs : \A i \in DOMAIN saPolls[p] : ~saPolls[p][i].ctxDone

(***************************************************************************)
(* C28 amended: once the context is cancelled the poll issues at most one  *)
(* further list call, for a tick the select takes before the Done branch;  *)
(* that call is made with the cancelled context, fails, and ends the poll. *)
(***************************************************************************)
\* The poll of p makes a list call in this step.
PollLists(p) == saPolls'[p] # saPolls[p] /\ saPolls'[p] # <<>>

C28_OneListAfterCancelStep ==
    \A p \in Procs :
        (saCtxDone[p] /\ PollLists(p)) =>
            /\ saTick[p]
            /\ saPolls'[p] = Append(saPolls[p], saPolls'[p][Len(saPolls'[p])])
            /\ saPolls'[p][Len(saPolls'[p])].ctxDone
            /\ saPolls'[p][Len(saPolls'[p])].failed
            /\ saAwaitRet'[p] = "listErr"
            /\ saPc'[p] = "ready"
            /\ ~saState'[p]

C28_OneListAfterCancelState ==
    \A p \in Procs : \A i \in DOMAIN saPolls[p] :
        saPolls[p][i].ctxDone =>
            /\ i = Len(saPolls[p])
            /\ saPolls[p][i].failed
            /\ saPc[p] = "ready"

C28_AtMostOneListAfterCancel ==
    []C28_OneListAfterCancelState /\ [][C28_OneListAfterCancelStep]_vars

\* A poll whose second list call was made after the cancellation.
C28_Witness ==
    \E p \in Procs :
        /\ saOp[p] = "Create"
        /\ Len(saPolls[p]) = 2
        /\ NotYet(p, 1)
        /\ ~saPolls[p][1].ctxDone
        /\ saPolls[p][2].ctxDone
        /\ saAwaitRet[p] = "listErr"

(***************************************************************************)
(* C29: CreateGRPCClient never attaches the OAuth bearer token to a        *)
(* connection with insecure transport credentials: with a client id the    *)
(* credentials are TLS credentials, and with a tls block the connection    *)
(* uses the certificate material supplied.                                 *)
(***************************************************************************)
\* CreateGRPCClient has returned a client.
ClientMade == gcOp = "CreateGRPCClient" /\ ~gcRet.err

C29_TokenOnlyOverTLS ==
    ClientMade =>
        (gcRet.client.authenticated => gcRet.client.credentials.transport = "tls")

C29_TLSBlockUsed ==
    ClientMade =>
        (gcArgs.useTLS =>
            gcRet.client.credentials
              = TLSCredentials(gcArgs.certString, gcArgs.keyString, "pem", gcArgs.serverName))

C29_NoTokenInPlaintext == C29_TokenOnlyOverTLS /\ C29_TLSBlockUsed

\* What holds: without the insecure flag the credentials are TLS
\* credentials, those of the tls block when there is one.
C29_SecureUnlessInsecure ==
    ClientMade =>
        /\ gcRet.client.credentials.transport = "insecure" <=> gcArgs.insecure
        /\ (~gcArgs.insecure /\ gcArgs.useTLS) =>
              gcRet.client.credentials
                = TLSCredentials(gcArgs.certString, gcArgs.keyString, "pem",
                                 gcArgs.serverName)

(***************************************************************************)
(* C30: for every jitter, start time and end time that                     *)
(* convertToScheduleSpec accepted, the string convertScheduleSpec makes of *)
(* the wire value is accepted again and denotes the same duration or the   *)
(* same instant.                                                           *)
(***************************************************************************)
\* The string read for a configured time parses to the same instant.
SameInstant(configured, read) ==
    ~configured.null =>
        /\ ~read.null
        /\ ParseRFC3339(read.value).ok
        /\ TimestamppbNew(ParseRFC3339(read.value))
             = TimestamppbNew(ParseRFC3339(configured.value))

\* The string read for a configured duration parses to the same duration.
SameDuration(configured, read) ==
    ~configured.null =>
        /\ ~read.null
        /\ ParseDuration(read.value).ok
        /\ ParseDuration(read.value) = ParseDuration(configured.value)

\* The two times of the claim.
C30_TimesStable ==
    ReadStored =>
        /\ SameInstant(schedPlan.spec.start_time, schedState.data.spec.start_time)
        /\ SameInstant(schedPlan.spec.end_time, schedState.data.spec.end_time)

C30_RoundTripStable ==
    /\ C30_TimesStable
    /\ ReadStored => SameDuration(schedPlan.spec.jitter, schedState.data.spec.jitter)

\* A time with a zone has been read back.
C30_TimesWitness ==
    /\ ReadStored
    /\ schedPlan.spec.start_time = Str(TimeZoned)
    /\ schedState.data.spec.start_time # schedPlan.spec.start_time

====
